---- MODULE Spec2Model ----
(***************************************************************************)
(* CNES_AUTOMATOR: the asynchronous batch fetcher of                        *)
(* src/cnes_automator_fast.py (class CNESAPIAutomator), the loader of the   *)
(* code list, the macro-region merger (class CNESMacrorregiaeMerger) and    *)
(* the sequence in which main runs them.                                    *)
(*                                                                         *)
(* One run of processar_lista_codigos is modelled: the code list is cut    *)
(* into batches (lotes), each batch is a set of coroutines                 *)
(* consultar_estabelecimento_async run by asyncio.gather on one event      *)
(* loop, and the results of a settled batch are appended to the two        *)
(* accumulating lists.  A coroutine runs without interruption between two  *)
(* awaits, so every action below is the code between two suspension        *)
(* points.                                                                 *)
(***************************************************************************)
EXTENDS Integers, Sequences, FiniteSets, TLC

\* ------------------------------------------------------------------ bounds
\* longest code list explored with every kind of network fault
MaxCodigos == 3
\* longest code list explored with the API answering only 200+object or 404
MaxCodigosSimples == 6
\* largest value of concurrent_requests
MaxConcorrentes == 2
\* longest array in a code-list document
MaxItens == 2
\* longest array of entries in a macro-region document
MaxMunicipios == 2
\* longest array of facility records handed to the merger
MaxUnidades == 2

\* ------------------------------------------------------ program constants
\* "if i % 5 == 0": a backup is written after every 5th batch
LotesPorBackup == 5

base_url == "https://apidadosabertos.saude.gov.br/cnes/estabelecimentos"

\* ------------------------------------------------------------------ inputs
\* the facility codes a list is drawn from (strings, as str(...) produces)
Catalogo == <<"111", "222", "333", "444", "555", "666", "777", "888", "999">>

\* the ways a request can go wrong; a run's network exhibits a subset
TodasFalhas == {"404", "http", "json_invalido", "nao_dict", "prazo", "excecao"}
FalhasSimples == {"404"}

\* HTTP statuses other than 200 and 404 the API may answer
OutrosStatus == {403, 500}

\* datetime.now().isoformat(): an opaque timestamp
Agora == "2025-01-01T00:00:00"

Min(a, b) == IF a < b THEN a ELSE b

\* a file that has not been read
SemDocumento == [forma |-> "nenhum"]

\* mesclar_arquivo_resultados has not run
SemMesclagem == [feita |-> FALSE]

\* processar_async has caught no exception
SemErro == [tipo |-> "nenhum", origem |-> "nenhuma"]

VARIABLES
    codigos_cnes,            \* the argument of processar_lista_codigos
    concurrent_requests,     \* self.concurrent_requests
    delay_between_batches,   \* self.delay_between_batches (0 or a positive duration)
    falhas_api,              \* the faults the network shows in this run
    pc,                      \* where processar_lista_codigos stands
    excecao,                 \* the exception processar_lista_codigos raised, or "nenhuma"
    lotes,                   \* the batches
    i,                       \* the batch index of "for i, lote in enumerate(lotes, 1)"
    tarefas,                 \* one coroutine per position of codigos_cnes
    stats,                   \* self.stats counters
    estabelecimentos_validos,
    erros_encontrados,
    progress_tracker,        \* what the ProgressTracker was last told
    arquivo_backup,          \* the file cnes_backup_<timestamp>.json
    historico_backup,        \* the operations performed on that file, in order
    fase,                    \* where main's processar_async stands
    arquivo_entrada,         \* the document in the code-list file
    erro_fatal,              \* the exception that ended processar_async, with the call that raised it
    arquivo_macrorregiao,    \* the document in the macro-region file
    dados_macrorregiao,      \* CNESMacrorregiaeMerger.dados_macrorregiao
    arquivo_resultados,      \* the facility records handed to the merger
    mesclagem,               \* what mesclar_arquivo_resultados produced
    arquivo_emergencia,      \* the file <saida>_emergencia.json of salvar_resultados
    remesclados              \* what mesclar_dados_unidade returns for records it returned before

\* the state of main and of the merger, which a fetch run leaves alone
vars_principal == <<fase, arquivo_entrada, erro_fatal, arquivo_macrorregiao,
                    dados_macrorregiao, arquivo_resultados, mesclagem,
                    arquivo_emergencia, remesclados>>

\* the state of one run of processar_lista_codigos
vars_consulta == <<codigos_cnes, concurrent_requests, delay_between_batches, falhas_api,
                   pc, excecao, lotes, i, tarefas, stats, estabelecimentos_validos,
                   erros_encontrados, progress_tracker, arquivo_backup,
                   historico_backup>>

vars == <<vars_consulta, vars_principal>>

\* ----------------------------------------------------------- batch slicing
\* faulty variant of Fatia: the slice loses its last element (seq[a:b-1])
FatiaCurta(seq, a, b) == SubSeq(seq, a + 1, Min(b - 1, Len(seq)))

\* python slice seq[a:b] (0-based, b exclusive, clipped to the length)
Fatia(seq, a, b) == SubSeq(seq, a + 1, Min(b, Len(seq)))

\* "for i in range(0, len(codigos_cnes), k): lotes.append(codigos_cnes[i:i+k])"
RECURSIVE LotesDesde(_, _, _)
LotesDesde(cods, k, ini) ==
    IF ini >= Len(cods) THEN <<>>
    ELSE <<Fatia(cods, ini, ini + k)>> \o LotesDesde(cods, k, ini + k)

\* faulty variant of DividirEmLotes: batches one code longer than concurrent_requests
DividirEmLotesLargos(cods, k) == LotesDesde(cods, k + 1, 0)

DividirEmLotes(cods, k) == LotesDesde(cods, k, 0)

\* position in codigos_cnes of the j-th code (1-based) of batch b (1-based)
Posicao(b, j) == (b - 1) * concurrent_requests + j

\* the positions of codigos_cnes that batch b holds
PosicoesDoLote(b) ==
    IF b \in 1..Len(lotes) THEN {Posicao(b, j) : j \in 1..Len(lotes[b])} ELSE {}

\* the batch a position belongs to
LoteDe(p) == ((p - 1) \div concurrent_requests) + 1


\* ------------------------------------------------- the coroutine's results
\* the tuple (sucesso, dados_ou_erro) consultar_estabelecimento_async returns
Retorno(sucesso, dados) == [tipo |-> "retorno", sucesso |-> sucesso, dados |-> dados]

\* an exception object asyncio.gather(return_exceptions=True) hands back
Levantada(e) == [tipo |-> "excecao", detalhes |-> e]

SemResultado == [tipo |-> "nenhum"]

Url(codigo_cnes) == base_url \o "/" \o codigo_cnes

\* what "await response.json()" yields for a body of the given shape
Corpo(forma, codigo_cnes) ==
    CASE forma = "dict" -> [forma |-> "dict", conteudo |-> [codigo_cnes |-> codigo_cnes]]
      [] forma = "list" -> [forma |-> "list", conteudo |-> <<codigo_cnes>>]
      [] OTHER          -> [forma |-> "escalar", conteudo |-> codigo_cnes]

\* "if isinstance(dados, dict): dados['_metadata'] = {...}"
AdicionarMetadados(dados, codigo_cnes) ==
    IF dados.forma = "dict"
    THEN [dados EXCEPT !.conteudo =
            ("_metadata" :> [consultado_em          |-> Agora,
                             codigo_cnes_consultado |-> codigo_cnes,
                             url_consultada         |-> Url(codigo_cnes)]) @@ @]
    ELSE dados

\* Each operator below gives the coroutine's return value and the counter of
\* self.stats it increments on that path.

\* status 200 and response.json() returned
AoLerJson(codigo_cnes, forma) ==
    [resultado |-> Retorno(TRUE, AdicionarMetadados(Corpo(forma, codigo_cnes), codigo_cnes)),
     contador  |-> "sucessos"]

\* status 200 and response.json() raised e: "except Exception as json_error"
AoFalharJson(codigo_cnes, e) ==
    [resultado |-> Retorno(FALSE, [codigo_cnes |-> codigo_cnes,
                                   erro        |-> "Resposta não é um JSON válido",
                                   status_code |-> 200,
                                   detalhes    |-> e]),
     contador  |-> "erros"]

\* faulty variant of AoReceberStatus: no branch of its own for 404
AoReceberStatusSem404(codigo_cnes, status) ==
    [resultado |-> Retorno(FALSE, [codigo_cnes    |-> codigo_cnes,
                                   erro           |-> "Erro HTTP",
                                   status_code    |-> status,
                                   url_consultada |-> Url(codigo_cnes)]),
     contador  |-> "erros"]

\* a status other than 200: the elif / else branches
AoReceberStatus(codigo_cnes, status) ==
    IF status = 404
    THEN [resultado |-> Retorno(FALSE, [codigo_cnes    |-> codigo_cnes,
                                        erro           |-> "Código CNES não encontrado",
                                        status_code    |-> 404,
                                        url_consultada |-> Url(codigo_cnes)]),
          contador  |-> "codigos_invalidos"]
    ELSE [resultado |-> Retorno(FALSE, [codigo_cnes    |-> codigo_cnes,
                                        erro           |-> "Erro HTTP",
                                        status_code    |-> status,
                                        url_consultada |-> Url(codigo_cnes)]),
          contador  |-> "erros"]

\* session.get raised e: "except asyncio.TimeoutError" then "except Exception"
AoFalharEnvio(codigo_cnes, e) ==
    IF e = "TimeoutError"
    THEN [resultado |-> Retorno(FALSE, [codigo_cnes    |-> codigo_cnes,
                                        erro           |-> "Timeout na requisição",
                                        detalhes       |-> "A requisição demorou mais que 15 segundos",
                                        url_consultada |-> Url(codigo_cnes)]),
          contador  |-> "erros_conexao"]
    ELSE [resultado |-> Retorno(FALSE, [codigo_cnes    |-> codigo_cnes,
                                        erro           |-> "Erro inesperado",
                                        detalhes       |-> e,
                                        url_consultada |-> Url(codigo_cnes)]),
          contador  |-> "erros"]

\* ------------------------------------------------------ what the API may do
StatusPossiveis ==
    {200} \cup (IF "404" \in falhas_api THEN {404} ELSE {})
          \cup (IF "http" \in falhas_api THEN OutrosStatus ELSE {})

FormasPossiveis ==
    {"dict"} \cup (IF "nao_dict" \in falhas_api THEN {"list", "escalar"} ELSE {})

ExcecoesDeEnvio ==
    (IF "prazo" \in falhas_api THEN {"TimeoutError"} ELSE {})
    \cup (IF "excecao" \in falhas_api THEN {"ClientError"} ELSE {})

ExcecoesDeJson ==
    (IF "prazo" \in falhas_api THEN {"TimeoutError"} ELSE {})
    \cup (IF "json_invalido" \in falhas_api THEN {"JSONDecodeError"} ELSE {})

\* ------------------------------------------------------------- coroutines
\* a coroutine before asyncio.gather has been given it
TarefaNova == [estado |-> "nao_criada", status |-> 0, sinal |-> "nenhum",
               resultado |-> SemResultado]

EmVoo(t) == t.estado \in {"enviada", "lendo"}

\* faulty variant of Concluir: a request that failed is put back to be sent again
ConcluirComRetentativa(p, status, sinal, r) ==
    /\ tarefas' = [tarefas EXCEPT ![p] =
                      IF r.resultado.tipo = "retorno" /\ r.resultado.sucesso
                      THEN [estado |-> "concluida", status |-> status,
                            sinal |-> sinal, resultado |-> r.resultado]
                      ELSE [@ EXCEPT !.estado = "criada"]]
    /\ stats' = IF r.resultado.tipo = "retorno"
                THEN [stats EXCEPT ![r.contador] = @ + 1]
                ELSE stats

\* faulty variant of Concluir: the increment is lost when another request of
\* the batch is in flight (the counter written back from a stale read)
ConcluirComCorrida(p, status, sinal, r) ==
    /\ tarefas' = [tarefas EXCEPT ![p] = [estado |-> "concluida", status |-> status,
                                          sinal |-> sinal, resultado |-> r.resultado]]
    /\ stats' = IF r.resultado.tipo = "retorno"
                   /\ ~(\E q \in DOMAIN tarefas : q # p /\ EmVoo(tarefas[q]))
                THEN [stats EXCEPT ![r.contador] = @ + 1]
                ELSE stats

\* the coroutine returns: its result is what gather will hand back, and the
\* counter of its outcome has been incremented
Concluir(p, status, sinal, r) ==
    /\ tarefas' = [tarefas EXCEPT ![p] = [estado |-> "concluida", status |-> status,
                                          sinal |-> sinal, resultado |-> r.resultado]]
    /\ stats' = IF r.resultado.tipo = "retorno"
                THEN [stats EXCEPT ![r.contador] = @ + 1]
                ELSE stats

\* faulty variant of PodeIniciar: every coroutine of the list may run, whatever
\* its batch (all codes handed to gather at once)
PodeIniciarSemLotes(p) ==
    /\ pc = "lote"
    /\ p \in DOMAIN tarefas
    /\ tarefas[p].estado \in {"nao_criada", "criada"}

\* the event loop may run the coroutine at position p: the tasks gather made
\* are started in the order they were given
PodeIniciar(p) ==
    /\ pc = "lote"
    /\ p \in PosicoesDoLote(i)
    /\ tarefas[p].estado = "criada"
    /\ \A q \in PosicoesDoLote(i) : q < p => tarefas[q].estado # "criada"

\* the coroutine runs up to "async with session.get(...)"
IniciarRequisicao(p) ==
    /\ PodeIniciar(p)
    /\ tarefas' = [tarefas EXCEPT ![p].estado = "enviada"]
    /\ stats' = [stats EXCEPT !.total_requisicoes = @ + 1]
    /\ UNCHANGED <<vars_principal, historico_backup>>
    /\ UNCHANGED <<codigos_cnes, concurrent_requests, delay_between_batches,
                   falhas_api, pc, excecao, lotes, i, estabelecimentos_validos,
                   erros_encontrados, progress_tracker, arquivo_backup>>

\* the status line arrives: 200 goes on to "await response.json()"
ReceberStatus(p, status) ==
    /\ pc = "lote"
    /\ p \in DOMAIN tarefas
    /\ tarefas[p].estado = "enviada"
    /\ status \in StatusPossiveis
    /\ IF status = 200
       THEN /\ tarefas' = [tarefas EXCEPT ![p].estado = "lendo", ![p].status = 200]
            /\ UNCHANGED stats
       ELSE Concluir(p, status, "nenhum", AoReceberStatus(codigos_cnes[p], status))
    /\ UNCHANGED <<vars_principal, historico_backup>>
    /\ UNCHANGED <<codigos_cnes, concurrent_requests, delay_between_batches,
                   falhas_api, pc, excecao, lotes, i, estabelecimentos_validos,
                   erros_encontrados, progress_tracker, arquivo_backup>>

\* session.get raises before any status: the deadline, or a connection error
FalharEnvio(p, e) ==
    /\ pc = "lote"
    /\ p \in DOMAIN tarefas
    /\ tarefas[p].estado = "enviada"
    /\ e \in ExcecoesDeEnvio
    /\ Concluir(p, 0, e, AoFalharEnvio(codigos_cnes[p], e))
    /\ UNCHANGED <<vars_principal, historico_backup>>
    /\ UNCHANGED <<codigos_cnes, concurrent_requests, delay_between_batches,
                   falhas_api, pc, excecao, lotes, i, estabelecimentos_validos,
                   erros_encontrados, progress_tracker, arquivo_backup>>

\* response.json() returns the parsed body
LerJson(p, forma) ==
    /\ pc = "lote"
    /\ p \in DOMAIN tarefas
    /\ tarefas[p].estado = "lendo"
    /\ forma \in FormasPossiveis
    /\ Concluir(p, 200, forma, AoLerJson(codigos_cnes[p], forma))
    /\ UNCHANGED <<vars_principal, historico_backup>>
    /\ UNCHANGED <<codigos_cnes, concurrent_requests, delay_between_batches,
                   falhas_api, pc, excecao, lotes, i, estabelecimentos_validos,
                   erros_encontrados, progress_tracker, arquivo_backup>>

\* response.json() raises: the body does not parse, or the deadline of the
\* request (ClientTimeout(total=15) covers the body read) expires meanwhile
FalharJson(p, e) ==
    /\ pc = "lote"
    /\ p \in DOMAIN tarefas
    /\ tarefas[p].estado = "lendo"
    /\ e \in ExcecoesDeJson
    /\ Concluir(p, 200, e, AoFalharJson(codigos_cnes[p], e))
    /\ UNCHANGED <<vars_principal, historico_backup>>
    /\ UNCHANGED <<codigos_cnes, concurrent_requests, delay_between_batches,
                   falhas_api, pc, excecao, lotes, i, estabelecimentos_validos,
                   erros_encontrados, progress_tracker, arquivo_backup>>

\* ------------------------------------------------------ processar_lote_codigos
\* "resultados = await asyncio.gather(*tarefas, return_exceptions=True)":
\* one result per task, in the order of codigos_lote
ResultadosDoLote(b) ==
    [j \in 1..Len(lotes[b]) |-> tarefas[Posicao(b, j)].resultado]

\* faulty variant of ResultadosLimpos: one request that ended in an unexpected
\* exception makes every request of its batch a failure
ResultadosLimposLoteInteiro(codigos_lote, resultados) ==
    IF \E j \in 1..Len(resultados) :
          /\ resultados[j].tipo = "retorno"
          /\ ~resultados[j].sucesso
          /\ resultados[j].dados.erro = "Erro inesperado"
    THEN [j \in 1..Len(resultados) |->
            Retorno(FALSE, [codigo_cnes |-> codigos_lote[j],
                            erro        |-> "Exceção durante processamento",
                            detalhes    |-> "lote abortado"])]
    ELSE resultados

\* the loop over enumerate(resultados): an exception object becomes a failure
\* tuple for codigos_lote[i], everything else is passed on
ResultadosLimpos(codigos_lote, resultados) ==
    [j \in 1..Len(resultados) |->
        IF resultados[j].tipo = "excecao"
        THEN Retorno(FALSE, [codigo_cnes |-> codigos_lote[j],
                             erro        |-> "Exceção durante processamento",
                             detalhes    |-> resultados[j].detalhes])
        ELSE resultados[j]]

LoteAssentado(b) == \A p \in PosicoesDoLote(b) : tarefas[p].estado = "concluida"

\* ----------------------------------------------------- processar_lista_codigos
\* faulty variant of IndiceProcessamento: the 0-based position is not shifted
IndiceProcessamentoBase0(b, j0) == (b - 1) * concurrent_requests + j0

\* "resultado['_metadata']['indice_processamento'] = (i-1) * k + j + 1", j 0-based
IndiceProcessamento(b, j0) == (b - 1) * concurrent_requests + j0 + 1

\* "if isinstance(resultado, dict) and '_metadata' in resultado: ..."
Carimbar(dados, b, j0) ==
    IF dados.forma = "dict" /\ "_metadata" \in DOMAIN dados.conteudo
    THEN [dados EXCEPT !.conteudo["_metadata"] =
            ("indice_processamento" :> IndiceProcessamento(b, j0)) @@ @]
    ELSE dados

\* faulty variant of Acumular: failures are not appended to the error list
RECURSIVE AcumularSemErros(_, _, _, _)
AcumularSemErros(resultados_lote, b, j, listas) ==
    IF j > Len(resultados_lote) THEN listas
    ELSE LET r == resultados_lote[j] IN
         IF r.tipo # "retorno" THEN [listas EXCEPT !.excecao = "TypeError"]
         ELSE AcumularSemErros(resultados_lote, b, j + 1,
                IF r.sucesso
                THEN [listas EXCEPT !.validos = Append(@, Carimbar(r.dados, b, j - 1))]
                ELSE listas)

\* faulty variant of Acumular: the index is written into '_metadata' without
\* looking at sucesso, so a failure dict (which has no '_metadata') raises KeyError
RECURSIVE AcumularSemGuarda(_, _, _, _)
AcumularSemGuarda(resultados_lote, b, j, listas) ==
    IF j > Len(resultados_lote) THEN listas
    ELSE LET r == resultados_lote[j] IN
         IF r.tipo # "retorno" THEN [listas EXCEPT !.excecao = "TypeError"]
         ELSE IF ~r.sucesso THEN [listas EXCEPT !.excecao = "KeyError"]
         ELSE AcumularSemGuarda(resultados_lote, b, j + 1,
                [listas EXCEPT !.validos = Append(@, Carimbar(r.dados, b, j - 1))])

\* "for j, (sucesso, resultado) in enumerate(resultados_lote)": the two lists
\* after the results from (1-based) position j on have been appended.  An
\* element that is no tuple cannot be unpacked: the loop stops with TypeError.
RECURSIVE Acumular(_, _, _, _)
Acumular(resultados_lote, b, j, listas) ==
    IF j > Len(resultados_lote) THEN listas
    ELSE LET r == resultados_lote[j] IN
         IF r.tipo # "retorno" THEN [listas EXCEPT !.excecao = "TypeError"]
         ELSE Acumular(resultados_lote, b, j + 1,
                IF r.sucesso
                THEN [listas EXCEPT !.validos = Append(@, Carimbar(r.dados, b, j - 1))]
                ELSE [listas EXCEPT !.erros = Append(@, r.dados)])

\* faulty variant of Processados: the count is not capped by the number of codes
ProcessadosSemTeto(b) == b * concurrent_requests

\* "processados = min(i * self.concurrent_requests, len(codigos_cnes))"
Processados(b) == Min(b * concurrent_requests, Len(codigos_cnes))

SemBackup == [existe |-> FALSE, completo |-> FALSE,
              estabelecimentos |-> <<>>, erros |-> <<>>]

\* salvar_backup_incremental: open(arquivo_backup, 'w') and json.dump, any
\* exception logged and swallowed.  escrita: "ok", "falha_open" (the file is
\* left as it was), "falha_dump" (the file is left truncated) or "interrompida"
\* (KeyboardInterrupt between open and the end of json.dump, which no
\* "except Exception" catches: the file is left truncated)
SalvarBackupIncremental(arquivo, estabelecimentos, erros, escrita) ==
    CASE escrita = "ok" ->
            [existe |-> TRUE, completo |-> TRUE,
             estabelecimentos |-> estabelecimentos, erros |-> erros]
      [] escrita \in {"falha_dump", "interrompida"} ->
            [existe |-> TRUE, completo |-> FALSE,
             estabelecimentos |-> <<>>, erros |-> <<>>]
      [] OTHER -> arquivo

\* faulty variant of ExcecaoDoBackup: a write that fails raises in the loop
ExcecaoDoBackupPropagada(escrita) ==
    IF escrita \in {"falha_open", "falha_dump"} THEN "OSError" ELSE "nenhuma"

\* "except Exception as e: logging.warning(...)": the exception that leaves
\* salvar_backup_incremental when the write went as escrita says
ExcecaoDoBackup(escrita) == "nenhuma"

\* faulty variant of EscritasPossiveis: a backup after every 2nd batch
EscritasPossiveisACadaDois(b) ==
    IF b % 2 = 0 THEN {"ok", "falha_open", "falha_dump", "interrompida"} ELSE {"nenhuma"}

\* "if i % 5 == 0": the outcomes a backup write can have after batch b
EscritasPossiveis(b) ==
    IF b % LotesPorBackup = 0
    THEN {"ok", "falha_open", "falha_dump", "interrompida"}
    ELSE {"nenhuma"}

\* faulty variant of RemoverBackup: the file is never removed
RemoverBackupNunca(arquivo, remocao_ok) == arquivo

\* "if os.path.exists(arquivo_backup): os.remove(arquivo_backup)" under a bare
\* except: the removal may fail and the failure is swallowed
RemoverBackup(arquivo, remocao_ok) ==
    IF arquivo.existe /\ remocao_ok THEN SemBackup ELSE arquivo

RemocoesPossiveis(arquivo) == IF arquivo.existe THEN BOOLEAN ELSE {TRUE}

\* the call of salvar_backup_incremental after batch b, as the file system saw it
RegistrarEscrita(historico, b, escrita) ==
    IF escrita = "nenhuma" THEN historico
    ELSE Append(historico, [operacao |-> "escrita", lote |-> b, resultado |-> escrita])

\* the call of os.remove after the last batch b: made only if the file exists
RegistrarRemocao(historico, b, arquivo, remocao_ok) ==
    IF arquivo.existe
    THEN Append(historico, [operacao |-> "remocao", lote |-> b,
                            resultado |-> IF remocao_ok THEN "ok" ELSE "falha"])
    ELSE historico

\* the code after the loop: finish(), fim_execucao, the consolidated result,
\* the removal of the backup, return
Finalizar(arquivo, remocao_ok) ==
    /\ pc' = "fim"
    /\ arquivo_backup' = RemoverBackup(arquivo, remocao_ok)

StatsIniciais == [total_requisicoes |-> 0, sucessos |-> 0, erros |-> 0,
                  codigos_invalidos |-> 0, erros_conexao |-> 0,
                  inicio_execucao |-> "None", fim_execucao |-> "None"]

\* processar_lote_codigos up to its await: one coroutine per code of batch b
CriarTarefas(b, ls) ==
    [p \in DOMAIN tarefas |->
        IF p \in {(b - 1) * concurrent_requests + j : j \in 1..Len(ls[b])}
        THEN [tarefas[p] EXCEPT !.estado = "criada"]
        ELSE tarefas[p]]

\* processar_lista_codigos from its first line to the first await.  The time
\* estimate divides by delay_between_batches; with no batch at all the loop
\* body never runs and the function returns at once.
ProcessarListaCodigos ==
    /\ pc = "inicio"
    /\ IF delay_between_batches = 0
       THEN /\ pc' = "erro"
            /\ excecao' = "ZeroDivisionError"
            /\ UNCHANGED <<lotes, i, tarefas, stats, progress_tracker, arquivo_backup>>
       ELSE LET ls == DividirEmLotes(codigos_cnes, concurrent_requests) IN
            /\ lotes' = ls
            /\ excecao' = excecao
            /\ progress_tracker' = [total_items |-> Len(codigos_cnes), processed_items |-> 0,
                                    success_count |-> 0, error_count |-> 0]
            /\ IF ls = <<>>
               THEN /\ stats' = [stats EXCEPT !.inicio_execucao = Agora,
                                              !.fim_execucao = Agora]
                    /\ Finalizar(arquivo_backup, TRUE)
                    /\ UNCHANGED <<i, tarefas>>
               ELSE /\ stats' = [stats EXCEPT !.inicio_execucao = Agora]
                    /\ i' = 1
                    /\ tarefas' = CriarTarefas(1, ls)
                    /\ pc' = "lote"
                    /\ UNCHANGED arquivo_backup
    /\ UNCHANGED <<vars_principal, historico_backup>>
    /\ UNCHANGED <<codigos_cnes, concurrent_requests, delay_between_batches,
                   falhas_api, estabelecimentos_validos, erros_encontrados>>

\* faulty variant of HaPausaDepois: the loop sleeps after the last batch too
HaPausaDepoisSempre(b) == TRUE

\* "if i < len(lotes): await asyncio.sleep(self.delay_between_batches)"
HaPausaDepois(b) == b < Len(lotes)

\* gather returns: the rest of processar_lote_codigos and the loop body of
\* processar_lista_codigos down to the next await (the sleep between batches),
\* or, after the last batch, down to the return
ConcluirLote(escrita, remocao_ok) ==
    /\ pc = "lote"
    /\ LoteAssentado(i)
    /\ LET resultados_lote == ResultadosLimpos(lotes[i], ResultadosDoLote(i))
           listas == Acumular(resultados_lote, i, 1,
                              [validos  |-> estabelecimentos_validos,
                               erros    |-> erros_encontrados,
                               excecao  |-> "nenhuma"])
           backup == SalvarBackupIncremental(arquivo_backup, listas.validos,
                                             listas.erros, escrita)
       IN /\ estabelecimentos_validos' = listas.validos
          /\ erros_encontrados' = listas.erros
          /\ IF listas.excecao # "nenhuma"
             THEN \* "except Exception as e: ... raise"
                  /\ escrita = "nenhuma"
                  /\ remocao_ok
                  /\ pc' = "erro"
                  /\ excecao' = listas.excecao
                  /\ UNCHANGED <<stats, progress_tracker, arquivo_backup,
                                 historico_backup>>
             ELSE /\ escrita \in EscritasPossiveis(i)
                  /\ progress_tracker' = [progress_tracker EXCEPT
                                            !.processed_items = Processados(i),
                                            !.success_count = Len(listas.validos),
                                            !.error_count = Len(listas.erros)]
                  /\ excecao' = ExcecaoDoBackup(escrita)
                  /\ IF ExcecaoDoBackup(escrita) # "nenhuma"
                     THEN /\ remocao_ok
                          /\ pc' = "erro"
                          /\ arquivo_backup' = backup
                          /\ historico_backup' =
                                RegistrarEscrita(historico_backup, i, escrita)
                          /\ UNCHANGED stats
                     ELSE IF HaPausaDepois(i)
                     THEN /\ remocao_ok
                          /\ pc' = "pausa"
                          /\ arquivo_backup' = backup
                          /\ historico_backup' =
                                RegistrarEscrita(historico_backup, i, escrita)
                          /\ UNCHANGED stats
                     ELSE /\ remocao_ok \in RemocoesPossiveis(backup)
                          /\ stats' = [stats EXCEPT !.fim_execucao = Agora]
                          /\ Finalizar(backup, remocao_ok)
                          /\ historico_backup' =
                                RegistrarRemocao(
                                    RegistrarEscrita(historico_backup, i, escrita),
                                    i, backup, remocao_ok)
    /\ UNCHANGED vars_principal
    /\ UNCHANGED <<codigos_cnes, concurrent_requests, delay_between_batches,
                   falhas_api, lotes, i, tarefas>>

\* "await asyncio.sleep(self.delay_between_batches)" returns: the loop goes on
\* to the next batch and processar_lote_codigos hands its coroutines to gather
FimDaPausa ==
    /\ pc = "pausa"
    /\ i' = i + 1
    /\ tarefas' = CriarTarefas(i + 1, lotes)
    /\ pc' = "lote"
    /\ UNCHANGED <<vars_principal, historico_backup>>
    /\ UNCHANGED <<codigos_cnes, concurrent_requests, delay_between_batches,
                   falhas_api, excecao, lotes, stats, estabelecimentos_validos,
                   erros_encontrados, progress_tracker, arquivo_backup>>

\* ----------------------------------------------------------------- interrupt
\* Ctrl-C while processar_lista_codigos waits for gather or for the sleep
\* between batches: KeyboardInterrupt (or the cancellation asyncio.run makes of
\* it) is no Exception, so "except Exception" lets it pass, "finally" closes
\* the connector and main's "except KeyboardInterrupt" ends the program.  The
\* requests in flight are abandoned; the backup file is not touched.
Interromper ==
    /\ pc \in {"lote", "pausa"}
    /\ pc' = "interrompido"
    /\ excecao' = "KeyboardInterrupt"
    /\ UNCHANGED <<vars_principal, historico_backup>>
    /\ UNCHANGED <<codigos_cnes, concurrent_requests, delay_between_batches,
                   falhas_api, lotes, i, tarefas, stats, estabelecimentos_validos,
                   erros_encontrados, progress_tracker, arquivo_backup>>

\* Ctrl-C while the loop body runs salvar_backup_incremental after batch i:
\* the batch has been appended and reported, the file has been opened for
\* writing and json.dump has not finished
InterromperEscrita ==
    /\ pc = "lote"
    /\ LoteAssentado(i)
    /\ "interrompida" \in EscritasPossiveis(i)
    /\ LET resultados_lote == ResultadosLimpos(lotes[i], ResultadosDoLote(i))
           listas == Acumular(resultados_lote, i, 1,
                              [validos  |-> estabelecimentos_validos,
                               erros    |-> erros_encontrados,
                               excecao  |-> "nenhuma"])
       IN /\ listas.excecao = "nenhuma"
          /\ estabelecimentos_validos' = listas.validos
          /\ erros_encontrados' = listas.erros
          /\ progress_tracker' = [progress_tracker EXCEPT
                                    !.processed_items = Processados(i),
                                    !.success_count = Len(listas.validos),
                                    !.error_count = Len(listas.erros)]
          /\ arquivo_backup' = SalvarBackupIncremental(arquivo_backup, listas.validos,
                                                       listas.erros, "interrompida")
          /\ historico_backup' = RegistrarEscrita(historico_backup, i, "interrompida")
    /\ pc' = "interrompido"
    /\ excecao' = "KeyboardInterrupt"
    /\ UNCHANGED vars_principal
    /\ UNCHANGED <<codigos_cnes, concurrent_requests, delay_between_batches,
                   falhas_api, lotes, i, tarefas, stats>>

\* --------------------------------------------------- progress rendering
\* what sys.stdout.write and flush may raise in ProgressTracker.update: the
\* progress line holds block characters and emoji, which a console of another
\* encoding rejects, and the output may be a closed pipe
ExcecoesDeProgresso == {"UnicodeEncodeError", "BrokenPipeError"}

\* gather returns, the batch is appended and progress_tracker.update raises e
\* while it writes the progress line: update has stored what it was told,
\* nothing in update or in the loop body catches e, and "except Exception as
\* e: ... raise" of processar_lista_codigos passes it to the caller
FalharProgresso(e) ==
    /\ pc = "lote"
    /\ LoteAssentado(i)
    /\ LET resultados_lote == ResultadosLimpos(lotes[i], ResultadosDoLote(i))
           listas == Acumular(resultados_lote, i, 1,
                              [validos  |-> estabelecimentos_validos,
                               erros    |-> erros_encontrados,
                               excecao  |-> "nenhuma"])
       IN /\ listas.excecao = "nenhuma"
          /\ estabelecimentos_validos' = listas.validos
          /\ erros_encontrados' = listas.erros
          /\ progress_tracker' = [progress_tracker EXCEPT
                                    !.processed_items = Processados(i),
                                    !.success_count = Len(listas.validos),
                                    !.error_count = Len(listas.erros)]
    /\ pc' = "erro"
    /\ excecao' = e
    /\ UNCHANGED <<vars_principal, historico_backup>>
    /\ UNCHANGED <<codigos_cnes, concurrent_requests, delay_between_batches,
                   falhas_api, lotes, i, tarefas, stats, arquivo_backup>>

\* ------------------------------------------------------------ specification
\* the first n codes of the catalogue, in catalogue order or reversed (the
\* loader hands over list(set(...)): distinct codes in no particular order)
ListaDeCodigos(n, invertida) ==
    [p \in 1..n |-> Catalogo[IF invertida THEN n + 1 - p ELSE p]]

Init ==
    /\ falhas_api \in {TodasFalhas, FalhasSimples}
    /\ \E n \in 0..(IF falhas_api = TodasFalhas THEN MaxCodigos ELSE MaxCodigosSimples),
          invertida \in BOOLEAN :
          /\ codigos_cnes = ListaDeCodigos(n, invertida)
          /\ tarefas = [p \in 1..n |-> TarefaNova]
    /\ concurrent_requests \in 1..MaxConcorrentes
    /\ delay_between_batches \in {0, 1}
    /\ pc = "inicio"
    /\ excecao = "nenhuma"
    /\ lotes = <<>>
    /\ i = 0
    /\ stats = StatsIniciais
    /\ estabelecimentos_validos = <<>>
    /\ erros_encontrados = <<>>
    /\ progress_tracker = [total_items |-> 0, processed_items |-> 0,
                           success_count |-> 0, error_count |-> 0]
    /\ arquivo_backup = SemBackup
    /\ historico_backup = <<>>
    /\ fase = "consulta"
    /\ arquivo_entrada = SemDocumento
    /\ erro_fatal = SemErro
    /\ arquivo_macrorregiao = SemDocumento
    /\ dados_macrorregiao = <<>>
    /\ arquivo_resultados = <<>>
    /\ mesclagem = SemMesclagem
    /\ arquivo_emergencia = SemDocumento
    /\ remesclados = <<>>

Next ==
    \/ ProcessarListaCodigos
    \/ \E p \in DOMAIN tarefas : IniciarRequisicao(p)
    \/ \E p \in DOMAIN tarefas, status \in StatusPossiveis : ReceberStatus(p, status)
    \/ \E p \in DOMAIN tarefas, e \in ExcecoesDeEnvio : FalharEnvio(p, e)
    \/ \E p \in DOMAIN tarefas, forma \in FormasPossiveis : LerJson(p, forma)
    \/ \E p \in DOMAIN tarefas, e \in ExcecoesDeJson : FalharJson(p, e)
    \/ \E escrita \in {"ok", "falha_open", "falha_dump", "nenhuma"}, remocao_ok \in BOOLEAN :
          ConcluirLote(escrita, remocao_ok)
    \/ FimDaPausa

Spec == Init /\ [][Next]_vars

\* a fetch run on an event loop that keeps running what is ready, against a
\* network on which every request sent settles: the coroutine that can start
\* is started, the request that waits for its status line gets it or fails,
\* the body that is being read arrives or fails, gather returns once its
\* batch has settled, and the sleep between two batches ends
Justica ==
    /\ WF_vars(ProcessarListaCodigos)
    /\ WF_vars(\E p \in DOMAIN tarefas : IniciarRequisicao(p))
    /\ WF_vars(\E p \in DOMAIN tarefas :
                  \/ \E status \in StatusPossiveis : ReceberStatus(p, status)
                  \/ \E e \in ExcecoesDeEnvio : FalharEnvio(p, e))
    /\ WF_vars(\E p \in DOMAIN tarefas :
                  \/ \E forma \in FormasPossiveis : LerJson(p, forma)
                  \/ \E e \in ExcecoesDeJson : FalharJson(p, e))
    /\ WF_vars(\E escrita \in {"ok", "falha_open", "falha_dump", "nenhuma"},
                   remocao_ok \in BOOLEAN : ConcluirLote(escrita, remocao_ok))
    /\ WF_vars(FimDaPausa)

SpecJusta == Init /\ [][Next]_vars /\ Justica

\* a fetch run during which the user may press Ctrl-C
NextInterrupcao ==
    \/ Next
    \/ Interromper
    \/ InterromperEscrita

SpecInterrupcao == Init /\ [][NextInterrupcao]_vars

\* a fetch run on a console that may reject the progress line
NextProgresso ==
    \/ Next
    \/ \E e \in ExcecoesDeProgresso : FalharProgresso(e)

SpecProgresso == Init /\ [][NextProgresso]_vars

\* =================================================================== main
\* ------------------------------------------------------------ JSON values
\* what json.load yields, by python type
JStr(s) == [t |-> "str", s |-> s]
JInt(n) == [t |-> "int", n |-> n]
JNull == [t |-> "null"]
JFloat == [t |-> "float"]
\* a dict: campos is a function from its keys to JSON values
JObj(campos) == [t |-> "obj", campos |-> campos]
\* a list: itens is the sequence of its JSON values
JList(itens) == [t |-> "list", itens |-> itens]
\* a file whose content json.load cannot parse
Ilegivel == [t |-> "ilegivel"]

Digitos == <<"0", "1", "2", "3", "4", "5", "6", "7", "8", "9">>

\* the decimal digits of a natural number
RECURSIVE Decimal(_)
Decimal(n) ==
    IF n < 10 THEN Digitos[n + 1]
    ELSE Decimal(n \div 10) \o Digitos[(n % 10) + 1]

\* python's str(v)
Str(v) ==
    CASE v.t = "str"   -> v.s
      [] v.t = "int"   -> Decimal(v.n)
      [] v.t = "null"  -> "None"
      [] v.t = "float" -> "1.5"
      [] v.t = "obj"   -> "{...}"
      [] OTHER         -> "[...]"

\* the strings made of white space only, the empty string among them
EmBranco == {"", " ", "  "}

\* "if codigo.strip()": something is left of the string once stripped
TemConteudo(s) == s \notin EmBranco

\* all sequences over S of length at most n
SeqsAte(S, n) == UNION {[1..m -> S] : m \in 0..n}

\* -------------------------------------------------- carregar_codigos_cnes
\* "for item in dados: ..." of a list document: a dict gives str of its
\* 'codigo_cnes', a str or int gives str of itself, anything else is skipped
RECURSIVE CodigosDaLista(_)
CodigosDaLista(itens) ==
    IF itens = <<>> THEN <<>>
    ELSE LET item == Head(itens) IN
         (IF item.t = "obj" /\ "codigo_cnes" \in DOMAIN item.campos
          THEN <<Str(item.campos["codigo_cnes"])>>
          ELSE IF item.t \in {"str", "int"} THEN <<Str(item)>>
          ELSE <<>>) \o CodigosDaLista(Tail(itens))

\* "for estabelecimento in dados['estabelecimentos']: if 'codigo_cnes' in
\* estabelecimento: ...": "in" is a key test on a dict, a substring test on a
\* str, a membership test on a list, and a TypeError on anything else
RECURSIVE CodigosDosEstabelecimentos(_, _)
CodigosDosEstabelecimentos(itens, codigos) ==
    IF itens = <<>> THEN [erro |-> "nenhum", codigos |-> codigos]
    ELSE LET item == Head(itens) IN
         IF item.t \in {"int", "null", "float"}
         THEN [erro |-> "TypeError", codigos |-> codigos]
         ELSE CodigosDosEstabelecimentos(Tail(itens),
                IF item.t = "obj" /\ "codigo_cnes" \in DOMAIN item.campos
                THEN Append(codigos, Str(item.campos["codigo_cnes"]))
                ELSE codigos)

\* the list "codigos" before duplicates and blanks are removed
ExtrairCodigos(dados) ==
    CASE dados.t = "ilegivel" -> [erro |-> "JSONDecodeError", codigos |-> <<>>]
      [] dados.t = "list" -> [erro |-> "nenhum", codigos |-> CodigosDaLista(dados.itens)]
      [] dados.t = "obj" ->
            IF "estabelecimentos" \in DOMAIN dados.campos
            THEN IF dados.campos["estabelecimentos"].t = "list"
                 THEN CodigosDosEstabelecimentos(dados.campos["estabelecimentos"].itens, <<>>)
                 ELSE [erro |-> "TypeError", codigos |-> <<>>]
            ELSE IF "codigo_cnes" \in DOMAIN dados.campos
            THEN [erro |-> "nenhum", codigos |-> <<Str(dados.campos["codigo_cnes"])>>]
            ELSE IF "codigos" \in DOMAIN dados.campos
            THEN IF dados.campos["codigos"].t = "list"
                 THEN [erro |-> "nenhum",
                       codigos |-> [n \in 1..Len(dados.campos["codigos"].itens) |->
                                       Str(dados.campos["codigos"].itens[n])]]
                 ELSE [erro |-> "TypeError", codigos |-> <<>>]
            ELSE [erro |-> "nenhum", codigos |-> <<>>]
      [] OTHER -> [erro |-> "nenhum", codigos |-> <<>>]

\* faulty variant of CodigosUnicos: blank codes are kept
CodigosUnicosComBrancos(codigos) == {codigos[n] : n \in 1..Len(codigos)}

\* "set([codigo for codigo in codigos if codigo.strip()])"
CodigosUnicos(codigos) ==
    {codigos[n] : n \in {m \in 1..Len(codigos) : TemConteudo(codigos[m])}}

\* carregar_codigos_cnes: the exception it raises, or the set its list is made of
CarregarCodigosCnes(dados) ==
    LET extraidos == ExtrairCodigos(dados)
        unicos == CodigosUnicos(extraidos.codigos)
    IN IF extraidos.erro # "nenhum" THEN [erro |-> extraidos.erro, codigos |-> {}]
       ELSE IF unicos = {} THEN [erro |-> "ValueError", codigos |-> {}]
       ELSE [erro |-> "nenhum", codigos |-> unicos]

\* "list(set(...))": the elements of the set, each once, in any order
Ordens(conjunto) ==
    {ordem \in [1..Cardinality(conjunto) -> conjunto] :
        \A a, b \in 1..Cardinality(conjunto) : ordem[a] = ordem[b] => a = b}

\* processar_async from its first line to input(): the automator is built and
\* the code list loaded; an exception is caught by processar_async's own
\* "except Exception", which prints it and ends the program
CarregarCodigos(ordem) ==
    /\ fase = "carga"
    /\ LET carga == CarregarCodigosCnes(arquivo_entrada) IN
       IF carga.erro # "nenhum"
       THEN /\ ordem = <<>>
            /\ erro_fatal' = [tipo |-> carga.erro, origem |-> "carregar_codigos_cnes"]
            /\ fase' = "abortado"
            /\ UNCHANGED <<codigos_cnes, tarefas>>
       ELSE /\ ordem \in Ordens(carga.codigos)
            /\ codigos_cnes' = ordem
            /\ tarefas' = [p \in 1..Len(ordem) |-> TarefaNova]
            /\ fase' = "confirmacao"
            /\ UNCHANGED erro_fatal
    /\ UNCHANGED <<concurrent_requests, delay_between_batches, falhas_api, pc, excecao,
                   lotes, i, stats, estabelecimentos_validos, erros_encontrados,
                   progress_tracker, arquivo_backup, historico_backup>>
    /\ UNCHANGED <<arquivo_entrada, arquivo_macrorregiao, dados_macrorregiao,
                   arquivo_resultados, mesclagem>>
    /\ UNCHANGED <<arquivo_emergencia, remesclados>>

\* the orders list(set(...)) may give the codes of the file
OrdensPossiveis == Ordens(CarregarCodigosCnes(arquivo_entrada).codigos) \cup {<<>>}

\* ------------------------------------------------- the code-list documents
SemCampos == [c \in {} |-> JNull]

\* what an array of a code-list file may hold
ItensDeCodigos ==
    {JStr("111"), JStr("222"), JStr(""), JStr(" "), JInt(111), JInt(7), JNull, JFloat,
     JObj("codigo_cnes" :> JStr("111")), JObj("codigo_cnes" :> JInt(333)),
     JObj("codigo_cnes" :> JStr(" ")), JObj("nome" :> JStr("UBS"))}

ListasDeItens == SeqsAte(ItensDeCodigos, MaxItens)

\* the code-list files: every shape carregar_codigos_cnes tells apart
DocumentosDeCodigos ==
    {Ilegivel, JNull, JStr("111"), JInt(111), JObj(SemCampos), JObj("nome" :> JStr("UBS")),
     JObj("estabelecimentos" :> JNull), JObj("codigos" :> JNull),
     JObj(("estabelecimentos" :> JList(<<>>)) @@ ("codigos" :> JList(<<JStr("111")>>)))}
    \cup {JList(l) : l \in ListasDeItens}
    \cup {JObj("estabelecimentos" :> JList(l)) : l \in ListasDeItens}
    \cup {JObj("codigos" :> JList(l)) : l \in ListasDeItens}
    \cup {JObj("codigo_cnes" :> v) : v \in {JStr("111"), JStr(""), JStr(" "), JInt(7), JNull}}

\* no fetch run has been started
ConsultaParada ==
    /\ codigos_cnes = <<>>
    /\ tarefas = <<>>
    /\ pc = "parado"
    /\ excecao = "nenhuma"
    /\ lotes = <<>>
    /\ i = 0
    /\ stats = StatsIniciais
    /\ estabelecimentos_validos = <<>>
    /\ erros_encontrados = <<>>
    /\ progress_tracker = [total_items |-> 0, processed_items |-> 0,
                           success_count |-> 0, error_count |-> 0]
    /\ arquivo_backup = SemBackup
    /\ historico_backup = <<>>

\* carregar_codigos_cnes applied to every code-list file
InitCarga ==
    /\ ConsultaParada
    /\ concurrent_requests = 1
    /\ delay_between_batches = 1
    /\ falhas_api = FalhasSimples
    /\ fase = "carga"
    /\ arquivo_entrada \in DocumentosDeCodigos
    /\ erro_fatal = SemErro
    /\ arquivo_macrorregiao = SemDocumento
    /\ dados_macrorregiao = <<>>
    /\ arquivo_resultados = <<>>
    /\ mesclagem = SemMesclagem
    /\ arquivo_emergencia = SemDocumento
    /\ remesclados = <<>>

NextCarga == \E ordem \in OrdensPossiveis : CarregarCodigos(ordem)

SpecCarga == InitCarga /\ [][NextCarga]_vars

\* ================================================= CNESMacrorregiaeMerger
\* the key under which the macro-region file keeps its array
ChaveMacrorregiao == "macrorregiao_regiao_saude_municipios"

\* the fields an index entry is made of
CamposMacro ==
    {"codigo_regiao_pais", "regiao_pais", "codigo_uf", "uf",
     "codigo_macrorregiao_saude", "macrorregiao_saude", "codigo_regiao_saude",
     "regiao_saude", "municipio", "populacao_estimada_ibge_2022"}

\* dict.get(chave): None when the key is missing
Get(campos, chave) == IF chave \in DOMAIN campos THEN campos[chave] ELSE JNull

\* "str(d.get('codigo_municipio', ''))"
CodigoMunicipio(campos) ==
    Str(IF "codigo_municipio" \in DOMAIN campos THEN campos["codigo_municipio"]
        ELSE JStr(""))

\* the dict stored in the index for an item of the file
EntradaDoIndice(item) == [c \in CamposMacro |-> Get(item.campos, c)]

\* faulty variant of Indexar: no item is stored
IndexarNada(itens, indice) == [erro |-> "nenhum", indice |-> indice]

\* faulty variant of Indexar: an item does not replace an earlier one of the
\* same code
RECURSIVE IndexarSemSubstituir(_, _)
IndexarSemSubstituir(itens, indice) ==
    IF itens = <<>> THEN [erro |-> "nenhum", indice |-> indice]
    ELSE LET item == Head(itens) IN
         IF item.t # "obj" THEN [erro |-> "AttributeError", indice |-> indice]
         ELSE LET codigo_municipio == CodigoMunicipio(item.campos) IN
              IndexarSemSubstituir(Tail(itens),
                      IF codigo_municipio # ""
                      THEN indice @@ (codigo_municipio :> EntradaDoIndice(item))
                      ELSE indice)

\* "for item in lista_municipios: ...": the index after the items have been
\* stored on top of indice, a later item replacing an earlier one of the same
\* code; item.get raises AttributeError on an item that is no dict
RECURSIVE Indexar(_, _)
Indexar(itens, indice) ==
    IF itens = <<>> THEN [erro |-> "nenhum", indice |-> indice]
    ELSE LET item == Head(itens) IN
         IF item.t # "obj" THEN [erro |-> "AttributeError", indice |-> indice]
         ELSE LET codigo_municipio == CodigoMunicipio(item.campos) IN
              Indexar(Tail(itens),
                      IF codigo_municipio # ""
                      THEN (codigo_municipio :> EntradaDoIndice(item)) @@ indice
                      ELSE indice)

SemIndice == [c \in {} |-> JNull]

\* carregar_dados_macrorregiao: the exception it raises, or the index it builds
CarregarDadosMacrorregiao(dados) ==
    CASE dados.t = "ilegivel" -> [erro |-> "JSONDecodeError", indice |-> SemIndice]
      [] dados.t = "obj" ->
            IF ChaveMacrorregiao \in DOMAIN dados.campos
            THEN IF dados.campos[ChaveMacrorregiao].t = "list"
                 THEN Indexar(dados.campos[ChaveMacrorregiao].itens, SemIndice)
                 ELSE [erro |-> "TypeError", indice |-> SemIndice]
            ELSE [erro |-> "ValueError", indice |-> SemIndice]
      [] dados.t = "list" ->
            \* "'macrorregiao_...' in dados" is a membership test on a list
            IF \E n \in 1..Len(dados.itens) : dados.itens[n] = JStr(ChaveMacrorregiao)
            THEN [erro |-> "TypeError", indice |-> SemIndice]
            ELSE Indexar(dados.itens, SemIndice)
      [] dados.t = "str" -> [erro |-> "ValueError", indice |-> SemIndice]
      [] OTHER -> [erro |-> "TypeError", indice |-> SemIndice]

\* a dict without one of its keys ("del d[chave]" if the key is there)
SemCampo(campos, chave) == [c \in DOMAIN campos \ {chave} |-> campos[c]]

\* faulty variant of DadosMacroLimpos: codigo_uf is left in the copy
DadosMacroComUf(dados_macro_originais) == dados_macro_originais

\* "if 'codigo_uf' in dados_macro_limpos: del dados_macro_limpos['codigo_uf']"
DadosMacroLimpos(dados_macro_originais) == SemCampo(dados_macro_originais, "codigo_uf")

\* ------------------------------------- the objects of mesclar_dados_unidade
\* The method works on dicts that its names are bound to: memoria gives the
\* items of every object, a name is bound to an object by a reference.

\* faulty variant of Copiar: the name is bound to the object itself
CopiarSemCopia(memoria, origem, novo) == [memoria |-> memoria, ref |-> origem]

\* "novo = origem.copy()": a new object with the items of origem
Copiar(memoria, origem, novo) ==
    [memoria |-> (novo :> memoria[origem]) @@ memoria, ref |-> novo]

\* "if chave in d: del d[chave]" on the object ref is bound to
Del(memoria, ref, chave) == [memoria EXCEPT ![ref] = SemCampo(@, chave)]

\* "d[chave] = valor" on the object ref is bound to
Atribuir(memoria, ref, chave, valor) ==
    [memoria EXCEPT ![ref] = (chave :> valor) @@ SemCampo(@, chave)]

\* mesclar_dados_unidade on a facility record that is a dict, statement by
\* statement: the objects when the method returns, the object it returns, and
\* the code it looked up
MesclarNaMemoria(unidade_saude, indice) ==
    LET inicial == "unidade_saude" :> unidade_saude.conteudo
        copia == Copiar(inicial, "unidade_saude", "unidade_mesclada")
        unidade_mesclada == copia.ref
        sem_metadata == Del(copia.memoria, unidade_mesclada, "_metadata")
        codigo_municipio == CodigoMunicipio(sem_metadata["unidade_saude"])
        encontrado == codigo_municipio # "" /\ codigo_municipio \in DOMAIN indice
    IN IF encontrado
       THEN LET com_entrada == ("dados_macro_originais" :> indice[codigo_municipio])
                                  @@ sem_metadata
                copia_macro == Copiar(com_entrada, "dados_macro_originais",
                                      "dados_macro_limpos")
                dados_macro_limpos == copia_macro.ref
                limpa == [copia_macro.memoria EXCEPT
                            ![dados_macro_limpos] = DadosMacroLimpos(@)]
            IN [memoria |-> Atribuir(limpa, unidade_mesclada, "dados_macrorregiao",
                                     JObj(limpa[dados_macro_limpos])),
                retorno |-> unidade_mesclada,
                codigo_municipio |-> codigo_municipio,
                encontrado |-> TRUE]
       ELSE [memoria |-> Atribuir(sem_metadata, unidade_mesclada, "dados_macrorregiao",
                                  JNull),
             retorno |-> unidade_mesclada,
             codigo_municipio |-> codigo_municipio,
             encontrado |-> FALSE]

\* the record mesclar_dados_unidade returns
MesclarDadosUnidade(unidade_saude, indice) ==
    LET fim == MesclarNaMemoria(unidade_saude, indice)
    IN [forma |-> "dict", conteudo |-> fim.memoria[fim.retorno]]

\* the argument of mesclar_dados_unidade when the method has returned
UnidadeAposMesclar(unidade_saude, indice) ==
    [forma |-> "dict",
     conteudo |-> MesclarNaMemoria(unidade_saude, indice).memoria["unidade_saude"]]

\* faulty variant of IndiceAposMesclar: the entry looked up is taken out of
\* the index
IndiceAposMesclarComPop(unidade_saude, indice) ==
    LET fim == MesclarNaMemoria(unidade_saude, indice)
    IN IF fim.encontrado
       THEN [c \in DOMAIN indice \ {fim.codigo_municipio} |-> indice[c]]
       ELSE indice

\* self.dados_macrorregiao when mesclar_dados_unidade has returned
IndiceAposMesclar(unidade_saude, indice) ==
    LET fim == MesclarNaMemoria(unidade_saude, indice)
    IN IF fim.encontrado
       THEN [indice EXCEPT ![fim.codigo_municipio] = fim.memoria["dados_macro_originais"]]
       ELSE indice

EstatisticasIniciais(total) ==
    [total_unidades |-> total, mesclagens_bem_sucedidas |-> 0,
     mesclagens_falharam |-> 0, codigos_municipio_nao_encontrados |-> <<>>]

\* "if estabelecimento_mesclado.get('dados_macrorregiao') is not None: ... else: ..."
ContarMesclagem(estatisticas, estabelecimento, estabelecimento_mesclado) ==
    IF estabelecimento_mesclado.conteudo["dados_macrorregiao"].t # "null"
    THEN [estatisticas EXCEPT !.mesclagens_bem_sucedidas = @ + 1]
    ELSE LET codigo_municipio == CodigoMunicipio(estabelecimento.conteudo) IN
         [estatisticas EXCEPT
            !.mesclagens_falharam = @ + 1,
            !.codigos_municipio_nao_encontrados =
                IF codigo_municipio # "" THEN Append(@, codigo_municipio) ELSE @]

\* "for i, estabelecimento in enumerate(estabelecimentos, 1)": the merged
\* list, the statistics, the list estabelecimentos and the index after the
\* records from position n on have been handled; a record that is no dict has
\* no copy: AttributeError
RECURSIVE MesclarDesde(_, _, _, _)
MesclarDesde(estabelecimentos, n, indice, parcial) ==
    IF n > Len(estabelecimentos)
    THEN [erro |-> "nenhum",
          estabelecimentos_mesclados |-> parcial.estabelecimentos_mesclados,
          estatisticas |-> parcial.estatisticas,
          estabelecimentos |-> estabelecimentos, indice |-> indice]
    ELSE IF estabelecimentos[n].forma # "dict"
    THEN [erro |-> "AttributeError",
          estabelecimentos_mesclados |-> parcial.estabelecimentos_mesclados,
          estatisticas |-> parcial.estatisticas,
          estabelecimentos |-> estabelecimentos, indice |-> indice]
    ELSE LET estabelecimento_mesclado == MesclarDadosUnidade(estabelecimentos[n], indice)
             estabelecimento == UnidadeAposMesclar(estabelecimentos[n], indice)
         IN MesclarDesde([estabelecimentos EXCEPT ![n] = estabelecimento], n + 1,
                         IndiceAposMesclar(estabelecimentos[n], indice),
            [estabelecimentos_mesclados |->
                Append(parcial.estabelecimentos_mesclados, estabelecimento_mesclado),
             estatisticas |-> ContarMesclagem(parcial.estatisticas, estabelecimento,
                                              estabelecimento_mesclado)])

\* mesclar_arquivo_resultados: the input is a results document or a bare list;
\* the output file is written before the success rate is logged, and logging
\* it divides by total_unidades
MesclarArquivo(entrada, indice) ==
    IF entrada.forma \notin {"resultados", "lista"}
    THEN [feita |-> TRUE, erro |-> "ValueError", gravado |-> FALSE,
          estabelecimentos_mesclados |-> <<>>, estatisticas |-> EstatisticasIniciais(0),
          estabelecimentos |-> <<>>, indice |-> indice]
    ELSE LET final == MesclarDesde(entrada.estabelecimentos, 1, indice,
                        [estabelecimentos_mesclados |-> <<>>,
                         estatisticas |-> EstatisticasIniciais(Len(entrada.estabelecimentos))])
         IN IF final.erro # "nenhum"
            THEN [feita |-> TRUE, erro |-> final.erro, gravado |-> FALSE,
                  estabelecimentos_mesclados |-> final.estabelecimentos_mesclados,
                  estatisticas |-> final.estatisticas,
                  estabelecimentos |-> final.estabelecimentos, indice |-> final.indice]
            ELSE [feita |-> TRUE,
                  erro |-> IF final.estatisticas.total_unidades = 0
                           THEN "ZeroDivisionError" ELSE "nenhum",
                  gravado |-> TRUE,
                  estabelecimentos_mesclados |-> final.estabelecimentos_mesclados,
                  estatisticas |-> final.estatisticas,
                  estabelecimentos |-> final.estabelecimentos, indice |-> final.indice]

\* "merger = CNESMacrorregiaeMerger(arquivo_macrorregiao)": the constructor
\* loads the file; what it raises ends processar_async
ConstruirMerger ==
    /\ fase = "indice"
    /\ LET carga == CarregarDadosMacrorregiao(arquivo_macrorregiao) IN
       IF carga.erro # "nenhum"
       THEN /\ erro_fatal' = [tipo |-> carga.erro, origem |-> "carregar_dados_macrorregiao"]
            /\ fase' = "abortado"
            /\ UNCHANGED dados_macrorregiao
       ELSE /\ dados_macrorregiao' = carga.indice
            /\ fase' = "mesclagem"
            /\ UNCHANGED erro_fatal
    /\ UNCHANGED vars_consulta
    /\ UNCHANGED <<arquivo_entrada, arquivo_macrorregiao, arquivo_resultados, mesclagem>>
    /\ UNCHANGED <<arquivo_emergencia, remesclados>>

\* "resultado_final = merger.mesclar_arquivo_resultados(...)" and the rest of
\* processar_async
MesclarArquivoResultados ==
    /\ fase = "mesclagem"
    /\ mesclagem' = MesclarArquivo(arquivo_resultados, dados_macrorregiao)
    /\ dados_macrorregiao' = mesclagem'.indice
    /\ IF mesclagem'.erro # "nenhum"
       THEN /\ erro_fatal' = [tipo |-> mesclagem'.erro,
                               origem |-> "mesclar_arquivo_resultados"]
            /\ fase' = "abortado"
       ELSE /\ fase' = "concluido"
            /\ UNCHANGED erro_fatal
    /\ UNCHANGED vars_consulta
    /\ UNCHANGED <<arquivo_entrada, arquivo_macrorregiao, arquivo_resultados>>
    /\ UNCHANGED <<arquivo_emergencia, remesclados>>

\* mesclar_dados_unidade called once more on every record that
\* mesclar_arquivo_resultados returned
MesclarNovamente ==
    /\ fase = "concluido"
    /\ remesclados = <<>>
    /\ LET de_novo == MesclarDesde(mesclagem.estabelecimentos_mesclados, 1,
                                   dados_macrorregiao,
                                   [estabelecimentos_mesclados |-> <<>>,
                                    estatisticas |-> EstatisticasIniciais(0)])
       IN /\ remesclados' = de_novo.estabelecimentos_mesclados
          /\ dados_macrorregiao' = de_novo.indice
    /\ UNCHANGED vars_consulta
    /\ UNCHANGED <<fase, arquivo_entrada, erro_fatal, arquivo_macrorregiao,
                   arquivo_resultados, mesclagem, arquivo_emergencia>>

\* ---------------------------------------------- the merger's input files
\* an item of the macro-region file; area_km2 stands for the fields of the
\* file that the index does not keep
Municipio(codigo, nome) ==
    JObj(("codigo_municipio" :> codigo) @@ ("municipio" :> JStr(nome))
         @@ ("codigo_uf" :> JInt(15)) @@ ("uf" :> JStr("PA"))
         @@ ("area_km2" :> JInt(1610)))

ItensDeMacrorregiao ==
    {Municipio(JStr("150010"), "Abaetetuba"),
     Municipio(JInt(150010), "Abaetetuba 2022"),
     Municipio(JStr("150020"), "Acara"),
     Municipio(JNull, "Nulo"),
     Municipio(JStr(""), "Vazio"),
     JObj(("municipio" :> JStr("Sem codigo")) @@ ("uf" :> JStr("PA"))),
     JStr("texto")}

ListasDeMunicipios == SeqsAte(ItensDeMacrorregiao, MaxMunicipios)

\* the macro-region files: every shape carregar_dados_macrorregiao tells apart
DocumentosDeMacrorregiao ==
    {Ilegivel, JNull, JStr("texto"), JObj(SemCampos), JObj(ChaveMacrorregiao :> JNull)}
    \cup {JList(l) : l \in ListasDeMunicipios}
    \cup {JObj(ChaveMacrorregiao :> JList(l)) : l \in ListasDeMunicipios}
    \cup {JObj("municipios" :> JList(l)) : l \in ListasDeMunicipios}

\* three macro-region files used with every list of facility records
MacrorregioesDeReferencia ==
    {JList(<<Municipio(JStr("150010"), "Abaetetuba"), Municipio(JStr("150020"), "Acara")>>),
     JObj(ChaveMacrorregiao :>
            JList(<<Municipio(JNull, "Nulo"), Municipio(JInt(150010), "Abaetetuba 2022")>>)),
     JList(<<>>)}

\* a facility record as the fetch stage stores it: the API document
Unidade(codigo_cnes, campos) ==
    [forma |-> "dict", conteudo |-> ("codigo_cnes" :> codigo_cnes) @@ campos]

UnidadesDeSaude ==
    {Unidade("111", ("codigo_municipio" :> JStr("150010"))
                    @@ ("_metadata" :> [consultado_em |-> Agora])),
     Unidade("222", "codigo_municipio" :> JInt(150010)),
     Unidade("333", "codigo_municipio" :> JStr("999999")),
     Unidade("444", SemCampos),
     Unidade("555", "codigo_municipio" :> JStr("")),
     Unidade("666", "codigo_municipio" :> JNull),
     Unidade("777", "codigo_municipio" :> JStr("150020")),
     [forma |-> "list", conteudo |-> <<"888">>]}

ListasDeUnidades == SeqsAte(UnidadesDeSaude, MaxUnidades)

\* the files mesclar_arquivo_resultados may be given: a results document, a
\* bare list, or a document of neither shape
ResultadosPossiveis ==
    {[forma |-> f, estabelecimentos |-> l] : f \in {"resultados", "lista"},
                                             l \in ListasDeUnidades}
    \cup {[forma |-> "outro", estabelecimentos |-> <<>>]}

\* one results file used with every macro-region file
ResultadosDeReferencia ==
    {[forma |-> "resultados",
      estabelecimentos |-> <<Unidade("111", "codigo_municipio" :> JStr("150010")),
                             Unidade("333", "codigo_municipio" :> JStr("999999"))>>]}

\* the merger is built on a macro-region file and given a results file
InitMesclagem ==
    /\ ConsultaParada
    /\ concurrent_requests = 1
    /\ delay_between_batches = 1
    /\ falhas_api = FalhasSimples
    /\ fase = "indice"
    /\ arquivo_entrada = SemDocumento
    /\ erro_fatal = SemErro
    /\ \/ /\ arquivo_macrorregiao \in DocumentosDeMacrorregiao
          /\ arquivo_resultados \in ResultadosDeReferencia
       \/ /\ arquivo_macrorregiao \in MacrorregioesDeReferencia
          /\ arquivo_resultados \in ResultadosPossiveis
    /\ dados_macrorregiao = SemIndice
    /\ mesclagem = SemMesclagem
    /\ arquivo_emergencia = SemDocumento
    /\ remesclados = <<>>

NextMesclagem ==
    \/ ConstruirMerger
    \/ MesclarArquivoResultados
    \/ MesclarNovamente

SpecMesclagem == InitMesclagem /\ [][NextMesclagem]_vars

\* ====================================================== main, start to end
\* input("Deseja continuar? (s/n)"): on "s" processar_lista_codigos is called,
\* on anything else processar_async returns
Confirmar(confirma) ==
    /\ fase = "confirmacao"
    /\ IF confirma = "s"
       THEN /\ fase' = "consulta"
            /\ pc' = "inicio"
       ELSE /\ fase' = "desistencia"
            /\ UNCHANGED pc
    /\ UNCHANGED <<codigos_cnes, concurrent_requests, delay_between_batches, falhas_api,
                   excecao, lotes, i, tarefas, stats, estabelecimentos_validos,
                   erros_encontrados, progress_tracker, arquivo_backup, historico_backup>>
    /\ UNCHANGED <<arquivo_entrada, erro_fatal, arquivo_macrorregiao, dados_macrorregiao,
                   arquivo_resultados, mesclagem>>
    /\ UNCHANGED <<arquivo_emergencia, remesclados>>

\* processar_lista_codigos raised: processar_async's "except Exception" prints
\* the error and the program ends
FalharConsulta ==
    /\ fase = "consulta"
    /\ pc = "erro"
    /\ erro_fatal' = [tipo |-> excecao, origem |-> "processar_lista_codigos"]
    /\ fase' = "abortado"
    /\ UNCHANGED vars_consulta
    /\ UNCHANGED <<arquivo_entrada, arquivo_macrorregiao, dados_macrorregiao,
                   arquivo_resultados, mesclagem>>
    /\ UNCHANGED <<arquivo_emergencia, remesclados>>

\* what becomes of the emergency file: it is tried only after the first write
\* has failed
EmergenciasPossiveis(gravacao_ok) == IF gravacao_ok THEN {"nenhuma"} ELSE {"ok", "falha"}

\* processar_lista_codigos returned: salvar_resultados writes the intermediate
\* file, which the merger will read back.  When writing or reading back
\* fails, "except Exception" tries the emergency file with json.dump and then
\* raises the first exception again with a bare "raise", whatever became of
\* the emergency file; processar_async catches it and the program ends
SalvarResultados(gravacao_ok, emergencia) ==
    /\ fase = "consulta"
    /\ pc = "fim"
    /\ emergencia \in EmergenciasPossiveis(gravacao_ok)
    /\ IF gravacao_ok
       THEN /\ arquivo_resultados' = [forma |-> "resultados",
                                      estabelecimentos |-> estabelecimentos_validos]
            /\ fase' = "indice"
            /\ UNCHANGED <<erro_fatal, arquivo_emergencia>>
       ELSE /\ arquivo_emergencia' =
                  IF emergencia = "ok"
                  THEN [forma |-> "resultados",
                        estabelecimentos |-> estabelecimentos_validos]
                  ELSE arquivo_emergencia
            /\ erro_fatal' = [tipo |-> "OSError", origem |-> "salvar_resultados"]
            /\ fase' = "abortado"
            /\ UNCHANGED arquivo_resultados
    /\ UNCHANGED vars_consulta
    /\ UNCHANGED <<arquivo_entrada, arquivo_macrorregiao, dados_macrorregiao, mesclagem,
                   remesclados>>

\* the code-list files and macro-region files main is run on
EntradasPrincipais ==
    {JList(<<JStr("111"), JInt(222)>>), JObj("codigos" :> JList(<<JStr("111")>>)),
     JList(<<>>), Ilegivel}

MacrorregioesPrincipais ==
    {JList(<<Municipio(JStr("150010"), "Abaetetuba")>>),
     JObj("municipios" :> JList(<<Municipio(JStr("150010"), "Abaetetuba")>>)),
     JList(<<>>), Ilegivel}

\* main has read its parameters and found both files on disk
InitPrincipal ==
    /\ ConsultaParada
    /\ concurrent_requests \in 1..MaxConcorrentes
    /\ delay_between_batches \in {0, 1}
    /\ falhas_api = TodasFalhas
    /\ fase = "carga"
    /\ arquivo_entrada \in EntradasPrincipais
    /\ erro_fatal = SemErro
    /\ arquivo_macrorregiao \in MacrorregioesPrincipais
    /\ dados_macrorregiao = SemIndice
    /\ arquivo_resultados = <<>>
    /\ mesclagem = SemMesclagem
    /\ arquivo_emergencia = SemDocumento
    /\ remesclados = <<>>

NextPrincipal ==
    \/ \E ordem \in OrdensPossiveis : CarregarCodigos(ordem)
    \/ \E confirma \in {"s", "n"} : Confirmar(confirma)
    \/ Next
    \/ FalharConsulta
    \/ \E gravacao_ok \in BOOLEAN, emergencia \in {"nenhuma", "ok", "falha"} :
          SalvarResultados(gravacao_ok, emergencia)
    \/ ConstruirMerger
    \/ MesclarArquivoResultados

SpecPrincipal == InitPrincipal /\ [][NextPrincipal]_vars

\* ================================================================== claims
\* ---------------------------------------------------------------- vocabulary
Formas == {"dict", "list", "escalar"}

\* the request at position p has been started (its coroutine has run)
Iniciada(t) == t.estado \in {"enviada", "lendo", "concluida"}

NumEmVoo == Cardinality({p \in DOMAIN tarefas : EmVoo(tarefas[p])})

\* the results of the batch of position p have been appended to the lists
Coletado(p) == LoteDe(p) < i \/ (LoteDe(p) = i /\ pc \in {"pausa", "fim"})

\* the facility code a success record is about (the API document names it)
CodigoDoSucesso(d) ==
    CASE d.forma = "dict" -> d.conteudo["codigo_cnes"]
      [] d.forma = "list" -> d.conteudo[1]
      [] OTHER            -> d.conteudo

NosValidos(c) ==
    Cardinality({n \in 1..Len(estabelecimentos_validos) :
                    CodigoDoSucesso(estabelecimentos_validos[n]) = c})

NosErros(c) ==
    Cardinality({n \in 1..Len(erros_encontrados) :
                    erros_encontrados[n].codigo_cnes = c})

\* the network events of the request at position p were a 200 and a parsed body
RecebeuCorpo(p) == tarefas[p].status = 200 /\ tarefas[p].sinal \in Formas

RECURSIVE Concatenar(_)
Concatenar(ls) == IF ls = <<>> THEN <<>> ELSE Head(ls) \o Concatenar(Tail(ls))

TetoDaDivisao(n, k) == (n + k - 1) \div k

TemMetadados(d) == d.forma = "dict" /\ "_metadata" \in DOMAIN d.conteudo

\* the four parts of the provenance stamp are all on the record
CarimboCompleto(d) ==
    /\ TemMetadados(d)
    /\ {"consultado_em", "codigo_cnes_consultado", "url_consultada",
        "indice_processamento"} \subseteq DOMAIN d.conteudo["_metadata"]

ErrosRegistrados == {erros_encontrados[n].erro : n \in 1..Len(erros_encontrados)}

\* ------------------------------------------------------------------------ C1
\* C1: when processar_lista_codigos returns, the successes and the failures
\* together number len(codigos_cnes), and every input code has exactly one
\* outcome in the two lists (never none, never two).
C1_UmResultadoPorCodigo ==
    pc = "fim" =>
        /\ Len(estabelecimentos_validos) + Len(erros_encontrados) = Len(codigos_cnes)
        /\ \A p \in DOMAIN codigos_cnes :
              NosValidos(codigos_cnes[p]) + NosErros(codigos_cnes[p]) = 1

C1_Witness ==
    /\ pc = "fim"
    /\ Len(codigos_cnes) = 3
    /\ Len(estabelecimentos_validos) >= 1
    /\ Len(erros_encontrados) >= 1

\* ------------------------------------------------------------------------ C2
\* C2: batches are strictly sequential: while any request of a batch has not
\* settled, no request of a later batch has been started.
C2_LotesSequenciais ==
    \A p, q \in DOMAIN tarefas :
        (LoteDe(p) < LoteDe(q) /\ Iniciada(tarefas[q]))
            => tarefas[p].estado = "concluida"

C2_Witness ==
    /\ concurrent_requests = 2
    /\ \E p, q \in DOMAIN tarefas :
          /\ LoteDe(p) < LoteDe(q)
          /\ EmVoo(tarefas[q])
          /\ tarefas[p].sinal = "ClientError"

\* ------------------------------------------------------------------------ C3
\* C3: at every point of a run the requests in flight (started, not settled)
\* number at most concurrent_requests.
C3_LimiteEmVoo == NumEmVoo <= concurrent_requests

C3_Witness ==
    /\ concurrent_requests = 2
    /\ Len(codigos_cnes) > 2
    /\ NumEmVoo = 2

\* ------------------------------------------------------------------------ C4
\* C4: a list of n codes is cut into exactly ceil(n/k) batches; every batch
\* but the last has k codes, the last has between 1 and k, and the batches
\* concatenated in order are the input list.
C4_ParticaoEmLotes ==
    (pc # "inicio" /\ excecao # "ZeroDivisionError") =>
        /\ Len(lotes) = TetoDaDivisao(Len(codigos_cnes), concurrent_requests)
        /\ \A b \in 1..Len(lotes) :
              /\ b < Len(lotes) => Len(lotes[b]) = concurrent_requests
              /\ Len(lotes[b]) \in 1..concurrent_requests
        /\ Concatenar(lotes) = codigos_cnes

C4_Witness ==
    /\ pc = "lote"
    /\ concurrent_requests = 2
    /\ Len(lotes) = 3
    /\ Len(lotes[3]) = 1

\* ------------------------------------------------------------------------ C5
\* C5: a request that received a whole HTTP response (no deadline expired) is
\* classified by status and parseability alone: 404 is "not found", 200 with
\* a parsed body is a success, 200 with a body that does not parse is "invalid
\* payload", and any other status s is an HTTP error carrying s.
C5_ClassificacaoPorStatus ==
    \A p \in DOMAIN tarefas :
        LET t == tarefas[p]
            r == t.resultado
        IN (t.estado = "concluida" /\ t.status # 0 /\ t.sinal # "TimeoutError") =>
            /\ r.tipo = "retorno"
            /\ CASE t.status = 404 ->
                       /\ ~r.sucesso
                       /\ r.dados.erro = "Código CNES não encontrado"
                       /\ r.dados.status_code = 404
                       /\ r.dados.codigo_cnes = codigos_cnes[p]
                 [] t.status = 200 /\ t.sinal \in Formas ->
                       /\ r.sucesso
                       /\ CodigoDoSucesso(r.dados) = codigos_cnes[p]
                 [] t.status = 200 /\ t.sinal \notin Formas ->
                       /\ ~r.sucesso
                       /\ r.dados.erro = "Resposta não é um JSON válido"
                       /\ r.dados.codigo_cnes = codigos_cnes[p]
                 [] OTHER ->
                       /\ ~r.sucesso
                       /\ r.dados.erro = "Erro HTTP"
                       /\ r.dados.status_code = t.status
                       /\ r.dados.codigo_cnes = codigos_cnes[p]

C5_Witness ==
    \E p, q, r \in DOMAIN tarefas :
        /\ tarefas[p].estado = "concluida" /\ tarefas[p].status = 404
        /\ tarefas[q].estado = "concluida" /\ tarefas[q].status = 500
        /\ tarefas[r].estado = "concluida" /\ tarefas[r].status = 200
        /\ tarefas[r].sinal = "JSONDecodeError"

\* ------------------------------------------------------------------------ C6
\* C6: a request whose deadline expires is a Timeout failure and is counted in
\* erros_conexao, at whichever step the deadline fires, the body read after a
\* 200 status included.
C6_PrazoSempreTimeout ==
    /\ \A p \in DOMAIN tarefas :
          (tarefas[p].estado = "concluida" /\ tarefas[p].sinal = "TimeoutError") =>
              /\ ~tarefas[p].resultado.sucesso
              /\ tarefas[p].resultado.dados.erro = "Timeout na requisição"
    /\ stats.erros_conexao =
          Cardinality({p \in DOMAIN tarefas : tarefas[p].estado = "concluida"
                                              /\ tarefas[p].sinal = "TimeoutError"})

\* ------------------------------------------------------------------------ C7
\* C7: a request that ends in an exception does not disturb its batch: every
\* request of a collected batch has settled and has exactly one outcome, a
\* success exactly when its own response was a 200 with a parsed body, a
\* failure otherwise, and the failure recorded is the one of its own code.
C7_IsolamentoPorTarefa ==
    \A p \in DOMAIN tarefas :
        Coletado(p) =>
            /\ tarefas[p].estado = "concluida"
            /\ IF RecebeuCorpo(p)
               THEN /\ NosValidos(codigos_cnes[p]) = 1
                    /\ NosErros(codigos_cnes[p]) = 0
               ELSE /\ NosValidos(codigos_cnes[p]) = 0
                    /\ NosErros(codigos_cnes[p]) = 1
                    /\ \E n \in 1..Len(erros_encontrados) :
                          erros_encontrados[n] = tarefas[p].resultado.dados

C7_Witness ==
    /\ concurrent_requests = 2
    /\ \E p, q \in DOMAIN tarefas :
          /\ p # q
          /\ LoteDe(p) = LoteDe(q)
          /\ Coletado(p)
          /\ tarefas[p].sinal = "ClientError"
          /\ NosErros(codigos_cnes[p]) = 1
          /\ RecebeuCorpo(q)
          /\ NosValidos(codigos_cnes[q]) = 1

\* ------------------------------------------------------------------------ C8
\* C8: no timeout, HTTP error, invalid payload or unexpected exception of a
\* request makes processar_lista_codigos raise: it raises only before any
\* request was issued, collecting a settled batch raises nothing, and a run
\* that has returned went through every batch and holds each failed request
\* as a failure record.
C8_FalhasNaoPropagam ==
    /\ pc = "erro" => (excecao = "ZeroDivisionError" /\ stats.total_requisicoes = 0)
    /\ (pc = "lote" /\ LoteAssentado(i)) =>
          Acumular(ResultadosLimpos(lotes[i], ResultadosDoLote(i)), i, 1,
                   [validos |-> <<>>, erros |-> <<>>, excecao |-> "nenhuma"]).excecao
              = "nenhuma"
    /\ pc = "fim" =>
          /\ i = Len(lotes)
          /\ \A p \in DOMAIN tarefas :
                /\ tarefas[p].estado = "concluida"
                /\ ~RecebeuCorpo(p) => NosErros(codigos_cnes[p]) = 1

C8_Witness ==
    /\ pc = "fim"
    /\ {"Timeout na requisição", "Erro inesperado", "Resposta não é um JSON válido"}
          \subseteq ErrosRegistrados

\* ------------------------------------------------------------------------ C9
\* C9: the index stamped on a success is the 1-based position of the queried
\* code in the input list, that is (b-1)*k + i for the i-th code of batch b,
\* and no two successes of a run carry the same index.
C9_IndiceIgualPosicao ==
    /\ \A n \in 1..Len(estabelecimentos_validos) :
          LET d == estabelecimentos_validos[n] IN
          TemMetadados(d) =>
              LET m   == d.conteudo["_metadata"]
                  ind == m["indice_processamento"]
                  b   == LoteDe(ind)
              IN /\ "indice_processamento" \in DOMAIN m
                 /\ ind \in DOMAIN codigos_cnes
                 /\ codigos_cnes[ind] = m["codigo_cnes_consultado"]
                 /\ lotes[b][ind - (b - 1) * concurrent_requests]
                        = m["codigo_cnes_consultado"]
    /\ \A n1, n2 \in 1..Len(estabelecimentos_validos) :
          LET d1 == estabelecimentos_validos[n1]
              d2 == estabelecimentos_validos[n2]
          IN (n1 # n2 /\ TemMetadados(d1) /\ TemMetadados(d2)) =>
                d1.conteudo["_metadata"]["indice_processamento"]
                    # d2.conteudo["_metadata"]["indice_processamento"]

C9_Witness ==
    /\ concurrent_requests = 2
    /\ Len(codigos_cnes) >= 4
    /\ codigos_cnes[1] # "111"
    /\ \E n \in 1..Len(estabelecimentos_validos) :
          /\ TemMetadados(estabelecimentos_validos[n])
          /\ estabelecimentos_validos[n].conteudo["_metadata"]["indice_processamento"] = 4

\* ----------------------------------------------------------------------- C10
\* C10: every record of the successes list carries the provenance stamp with
\* its four parts (timestamp, queried code, URL, sequence index), whatever
\* the shape of the parsed payload.
C10_TodoSucessoCarimbado ==
    \A n \in 1..Len(estabelecimentos_validos) :
        CarimboCompleto(estabelecimentos_validos[n])

\* ------------------------------------------------------- backup vocabulary
\* the results of batch b have been appended to the two lists
LoteColetado(b) == b < i \/ (b = i /\ pc \in {"pausa", "fim"})

\* the calls of salvar_backup_incremental made after batch b
EscritasDoLote(b) ==
    {h \in DOMAIN historico_backup :
        /\ historico_backup[h].operacao = "escrita"
        /\ historico_backup[h].lote = b}

EscritasCompletas ==
    {h \in DOMAIN historico_backup :
        /\ historico_backup[h].operacao = "escrita"
        /\ historico_backup[h].resultado = "ok"}

\* the batch after which the last complete backup was written
LoteDoBackup ==
    historico_backup[CHOOSE h \in EscritasCompletas :
                        \A g \in EscritasCompletas : g <= h].lote

\* the codes whose outcome a backup document holds
CodigosNoArquivo(arquivo) ==
    {CodigoDoSucesso(arquivo.estabelecimentos[n]) : n \in 1..Len(arquivo.estabelecimentos)}
    \cup {arquivo.erros[n].codigo_cnes : n \in 1..Len(arquivo.erros)}

\* the document holds one outcome for every code of batches 1..b and no other
ConteudoDosLotesAte(arquivo, b) ==
    /\ Len(arquivo.estabelecimentos) + Len(arquivo.erros) = Min(b * concurrent_requests,
                                                                Len(codigos_cnes))
    /\ CodigosNoArquivo(arquivo) =
          {codigos_cnes[p] : p \in 1..Min(b * concurrent_requests, Len(codigos_cnes))}

TemResultado(b) == \E p \in PosicoesDoLote(b) : tarefas[p].estado = "concluida"

\* the backup file holds a complete document with the outcome of every code of batch b
LotePersistido(b) ==
    /\ arquivo_backup.existe
    /\ arquivo_backup.completo
    /\ \A p \in PosicoesDoLote(b) : codigos_cnes[p] \in CodigosNoArquivo(arquivo_backup)

\* the batches whose outcomes a crash in this state would lose
LotesEmRisco == {b \in 1..Len(lotes) : TemResultado(b) /\ ~LotePersistido(b)}

\* no backup write has failed so far
SemFalhaDeEscrita ==
    \A h \in DOMAIN historico_backup :
        historico_backup[h].operacao = "escrita" => historico_backup[h].resultado = "ok"

\* C12: while a fetch run is under way, the outcomes a crash would lose belong
\* to at most 5 batches, also after a backup write that failed.
C12_PerdaLimitada ==
    pc \in {"lote", "pausa"} => Cardinality(LotesEmRisco) <= LotesPorBackup

\* --------------------------------------------------------------------- C13
Remocoes == {h \in DOMAIN historico_backup : historico_backup[h].operacao = "remocao"}

\* some write has put the backup file on the disk (complete or truncated)
ArquivoCriado ==
    \E h \in DOMAIN historico_backup :
        /\ historico_backup[h].operacao = "escrita"
        /\ historico_backup[h].resultado \in {"ok", "falha_dump"}

C14_InterrupcaoPreservaBackup ==
    pc = "interrompido" =>
        /\ arquivo_backup.existe => arquivo_backup.completo
        /\ EscritasCompletas # {} =>
              /\ arquivo_backup.existe
              /\ arquivo_backup.completo
              /\ ConteudoDosLotesAte(arquivo_backup, LoteDoBackup)

\* --------------------------------------------------------------------- C15
\* C15: no retries.  The total-requests counter always equals the number of
\* codes whose request has been started, a request that has ended is never
\* started again, and when the run returns the counter equals len(codes) with
\* every code requested once.
C15_UmaRequisicaoPorCodigo ==
    /\ stats.total_requisicoes =
          Cardinality({p \in DOMAIN tarefas : Iniciada(tarefas[p])})
    /\ stats.total_requisicoes <= Len(codigos_cnes)
    /\ \A p \in DOMAIN tarefas : Coletado(p) => tarefas[p].estado = "concluida"
    /\ pc = "fim" =>
          /\ stats.total_requisicoes = Len(codigos_cnes)
          /\ \A p \in DOMAIN tarefas : tarefas[p].estado = "concluida"

\* a run of three codes has returned; two requests failed and three were made
C15_Witness ==
    /\ pc = "fim"
    /\ Len(codigos_cnes) = 3
    /\ Len(erros_encontrados) = 2
    /\ stats.total_requisicoes = 3

\* --------------------------------------------------------------------- C16
\* C16: once carregar_codigos_cnes has run, either it has returned a list that
\* is not empty, has no code twice and no code that is empty or white space
\* only, or it has raised; it raises on a file that does not parse, and it
\* never returns an empty list.
C16_CargaValidaOuErro ==
    /\ fase = "confirmacao" =>
          /\ erro_fatal.tipo = "nenhum"
          /\ arquivo_entrada.t # "ilegivel"
          /\ Len(codigos_cnes) > 0
          /\ \A a, b \in 1..Len(codigos_cnes) : codigos_cnes[a] = codigos_cnes[b] => a = b
          /\ \A a \in 1..Len(codigos_cnes) : codigos_cnes[a] \notin {"", " ", "  "}
    /\ fase = "abortado" =>
          /\ erro_fatal.tipo # "nenhum"
          /\ codigos_cnes = <<>>
    /\ fase \in {"carga", "confirmacao", "abortado"}

\* the file [111, "111"] has been loaded as the single code "111"
C16_Witness ==
    /\ fase = "confirmacao"
    /\ arquivo_entrada = JList(<<JInt(111), JStr("111")>>)
    /\ codigos_cnes = <<"111">>

\* ------------------------------------------------------- merger vocabulary
\* the file is an array of entry objects, or an object whose one field holds
\* such an array
FormatoDocumentado(d) ==
    /\ \/ d.t = "list"
       \/ /\ d.t = "obj"
          /\ Cardinality(DOMAIN d.campos) = 1
          /\ \A k \in DOMAIN d.campos : d.campos[k].t = "list"
    /\ LET itens == IF d.t = "list" THEN d.itens
                    ELSE d.campos[CHOOSE k \in DOMAIN d.campos : TRUE].itens
       IN \A n \in 1..Len(itens) : itens[n].t = "obj"

\* the array of entries of a file of a documented shape
ItensDoArquivo(d) ==
    IF d.t = "list" THEN d.itens
    ELSE d.campos[CHOOSE k \in DOMAIN d.campos : TRUE].itens

\* the constructor of the merger has returned
IndiceConstruido == fase \in {"mesclagem", "concluido"} \/ mesclagem.feita

\* the constructor of the merger has raised
RejeitadoNaCarga == fase = "abortado" /\ ~mesclagem.feita

\* the municipality codes looked up
CodigosDeConsulta == {"150010", "150020", "999999"}

\* the item's codigo_municipio is the code c, as a string or as an integer
Denota(campos, c) ==
    /\ "codigo_municipio" \in DOMAIN campos
    /\ \/ campos["codigo_municipio"].t = "str" /\ campos["codigo_municipio"].s = c
       \/ campos["codigo_municipio"].t = "int" /\ Decimal(campos["codigo_municipio"].n) = c

\* for every code looked up the index holds the ten fields of an item of that
\* code if the array has one, and nothing if it has none
ConsultaCorreta(itens) ==
    \A c \in CodigosDeConsulta :
        IF \E n \in 1..Len(itens) : Denota(itens[n].campos, c)
        THEN /\ c \in DOMAIN dados_macrorregiao
             /\ DOMAIN dados_macrorregiao[c] = CamposMacro
             /\ \E n \in 1..Len(itens) :
                   /\ Denota(itens[n].campos, c)
                   /\ \A campo \in CamposMacro :
                         dados_macrorregiao[c][campo] =
                            (IF campo \in DOMAIN itens[n].campos
                             THEN itens[n].campos[campo] ELSE JNull)
        ELSE c \notin DOMAIN dados_macrorregiao

\* --------------------------------------------------------------------- C18
\* C18 as stated: a macro-region file of any of the three shapes (an array of
\* entries, an object with a named array field, an object with the array under
\* the fixed key) is accepted, and the index then answers every lookup with
\* the entry of that code or with nothing.
C18_TresFormatosAceitos ==
    (fase # "indice" /\ FormatoDocumentado(arquivo_macrorregiao)) =>
        /\ IndiceConstruido
        /\ ConsultaCorreta(ItensDoArquivo(arquivo_macrorregiao))

\* C18 amended: an array of entries, and an object holding the array under
\* the key macrorregiao_regiao_saude_municipios, are accepted and the index
\* then answers every lookup with the entry of that code or with nothing; an
\* object without that key is rejected with ValueError, whatever array it holds.
C18_DoisFormatosAceitos ==
    fase # "indice" =>
        /\ ( /\ FormatoDocumentado(arquivo_macrorregiao)
             /\ \/ arquivo_macrorregiao.t = "list"
                \/ ChaveMacrorregiao \in DOMAIN arquivo_macrorregiao.campos ) =>
              /\ IndiceConstruido
              /\ ConsultaCorreta(ItensDoArquivo(arquivo_macrorregiao))
        /\ ( /\ arquivo_macrorregiao.t = "obj"
             /\ ChaveMacrorregiao \notin DOMAIN arquivo_macrorregiao.campos ) =>
              /\ RejeitadoNaCarga
              /\ erro_fatal.tipo = "ValueError"
              /\ dados_macrorregiao = SemIndice

\* the index built from an object with the fixed key answers for 150010 and
\* has nothing for 150020
C18_Witness ==
    /\ fase = "mesclagem"
    /\ arquivo_macrorregiao.t = "obj"
    /\ "150010" \in DOMAIN dados_macrorregiao
    /\ dados_macrorregiao["150010"]["municipio"] = JStr("Abaetetuba")
    /\ "150020" \notin DOMAIN dados_macrorregiao

\* ------------------------------------------------------------ C19 and C20
\* mesclar_arquivo_resultados has gone through every record and returned
MesclagemCompleta == mesclagem.feita /\ mesclagem.erro = "nenhum"

Registros == arquivo_resultados.estabelecimentos

\* the n-th record carries a municipality code (a non-empty string or an integer)
TemCodigo(n) ==
    /\ "codigo_municipio" \in DOMAIN Registros[n].conteudo
    /\ \/ /\ Registros[n].conteudo["codigo_municipio"].t = "str"
          /\ Registros[n].conteudo["codigo_municipio"].s # ""
       \/ Registros[n].conteudo["codigo_municipio"].t = "int"

\* the code of the n-th record, as text
CodigoDoRegistro(n) ==
    IF Registros[n].conteudo["codigo_municipio"].t = "str"
    THEN Registros[n].conteudo["codigo_municipio"].s
    ELSE Decimal(Registros[n].conteudo["codigo_municipio"].n)

\* the n-th record carries a municipality code that the index holds
PresenteNoIndice(n) == TemCodigo(n) /\ CodigoDoRegistro(n) \in DOMAIN dados_macrorregiao

DadosRegionais(n) == mesclagem.estabelecimentos_mesclados[n].conteudo["dados_macrorregiao"]

\* C19: for every record whose municipality code is in the index, the merged
\* record's dados_macrorregiao has every field of the index entry of that code
\* except codigo_uf, each with the entry's value, and the record is counted in
\* mesclagens_bem_sucedidas.
C19_CorrespondenciaCopiada ==
    MesclagemCompleta =>
        /\ \A n \in 1..Len(Registros) :
              PresenteNoIndice(n) =>
                 /\ DadosRegionais(n).t = "obj"
                 /\ DOMAIN DadosRegionais(n).campos = CamposMacro \ {"codigo_uf"}
                 /\ \A campo \in CamposMacro \ {"codigo_uf"} :
                       DadosRegionais(n).campos[campo] =
                          dados_macrorregiao[CodigoDoRegistro(n)][campo]
        /\ mesclagem.estatisticas.mesclagens_bem_sucedidas =
              Cardinality({n \in 1..Len(Registros) : DadosRegionais(n).t # "null"})
        /\ mesclagem.estatisticas.mesclagens_bem_sucedidas >=
              Cardinality({n \in 1..Len(Registros) : PresenteNoIndice(n)})

\* two records of code 150010, one giving it as a string and one as an
\* integer, have both been merged with the entry of 150010
C19_Witness ==
    /\ MesclagemCompleta
    /\ Len(Registros) = 2
    /\ PresenteNoIndice(1) /\ PresenteNoIndice(2)
    /\ Registros[1].conteudo["codigo_municipio"].t # Registros[2].conteudo["codigo_municipio"].t
    /\ DadosRegionais(1).campos["municipio"] = JStr("Abaetetuba")
    /\ mesclagem.estatisticas.mesclagens_bem_sucedidas = 2

\* the subsequence of 1..Len(Registros) whose records carry a code that the
\* index does not hold, as the texts of those codes
RECURSIVE CodigosSemCorrespondencia(_)
CodigosSemCorrespondencia(n) ==
    IF n = 0 THEN <<>>
    ELSE CodigosSemCorrespondencia(n - 1)
         \o (IF TemCodigo(n) /\ ~PresenteNoIndice(n) THEN <<CodigoDoRegistro(n)>> ELSE <<>>)

\* C20: every record whose municipality code is missing, empty, null or not in
\* the index gets dados_macrorregiao null and is counted in mesclagens_falharam;
\* codigos_municipio_nao_encontrados lists, in order, the codes of those of
\* them that carry a code (nothing for a missing, empty or null code); the two
\* counters add up to the number of records and the merged list has one
\* record per input record, in input order.
C20_SemCorrespondenciaNulo ==
    MesclagemCompleta =>
        /\ \A n \in 1..Len(Registros) :
              ~PresenteNoIndice(n) => DadosRegionais(n).t = "null"
        /\ mesclagem.estatisticas.mesclagens_falharam =
              Cardinality({n \in 1..Len(Registros) : ~PresenteNoIndice(n)})
        /\ mesclagem.estatisticas.codigos_municipio_nao_encontrados =
              CodigosSemCorrespondencia(Len(Registros))
        /\ mesclagem.estatisticas.mesclagens_bem_sucedidas
              + mesclagem.estatisticas.mesclagens_falharam = Len(Registros)
        /\ Len(mesclagem.estabelecimentos_mesclados) = Len(Registros)
        /\ \A n \in 1..Len(Registros) :
              mesclagem.estabelecimentos_mesclados[n].conteudo["codigo_cnes"] =
                 Registros[n].conteudo["codigo_cnes"]

\* --------------------------------------------------------------------- C17
\* C17: a code-list file or a macro-region file that is malformed makes main
\* stop before any request: no run has sent a request and then failed on
\* loading either file.
C17_ErroDeEntradaAntesDaRede ==
    erro_fatal.origem \in {"carregar_codigos_cnes", "carregar_dados_macrorregiao"}
        => stats.total_requisicoes = 0
\* ------------------------------------------------ merging a record again
\* the regional data mesclar_dados_unidade gave the n-th record it returned
\* when it was called on that record again
DadosRegionaisDeNovo(n) == remesclados[n].conteudo["dados_macrorregiao"]

\* C21: two equal records of one merge sequence get identical
\* dados_macrorregiao whatever their positions, and merging a record that was
\* already merged gives the dados_macrorregiao it already had.
C21_MesclagemIdempotente ==
    /\ MesclagemCompleta =>
          \A n, m \in 1..Len(Registros) :
             Registros[n] = Registros[m] => DadosRegionais(n) = DadosRegionais(m)
    /\ remesclados # <<>> =>
          /\ Len(remesclados) = Len(mesclagem.estabelecimentos_mesclados)
          /\ \A n \in 1..Len(remesclados) : DadosRegionaisDeNovo(n) = DadosRegionais(n)

\* one record with a code of the index was merged at two positions and both
\* merged records were merged again
C21_Witness ==
    /\ MesclagemCompleta
    /\ Len(Registros) = 2
    /\ Registros[1] = Registros[2]
    /\ PresenteNoIndice(1)
    /\ DadosRegionais(2).t = "obj"
    /\ Len(remesclados) = 2
    /\ DadosRegionaisDeNovo(1).t = "obj"

\* ----------------------------------------------- saving the fetch output
\* salvar_resultados raised
SalvarResultadosLevantou == erro_fatal.origem = "salvar_resultados"

\* the emergency file has been written
EmergenciaGravada == arquivo_emergencia # SemDocumento

\* C22: salvar_resultados raises only when the emergency write has failed
\* too: whenever the emergency file has been written, salvar_resultados has
\* not raised.
C22_LevantaSoSeEmergenciaFalhar == SalvarResultadosLevantou => ~EmergenciaGravada

\* ------------------------------------------------------ progress tracking
\* C23: an exception raised while ProgressTracker.update renders the progress
\* line never leaves processar_lista_codigos: the run does not end with it.
C23_ProgressoNaoPropaga == pc = "erro" => excecao \notin ExcecoesDeProgresso

\* ------------------------------------------------------- the pause length
\* C24: a run with delay_between_batches = 0 and a non-empty code list raises
\* no error, neither before its first request nor later.
C24_DelayZeroAceito ==
    (delay_between_batches = 0 /\ codigos_cnes # <<>>) =>
        (pc # "erro" /\ excecao = "nenhuma")

\* --------------------------------------------------- the pause between batches
\* no request of batch b has been created or sent
LoteIntocado(b) == \A p \in PosicoesDoLote(b) : tarefas[p].estado = "nao_criada"

\* the loop is in "await asyncio.sleep" after batch i: the batch and those
\* before it have settled, batch i has been reported and, where one is due,
\* its backup attempted; no later batch has been touched; a later batch exists
EmPausaEntreLotes ==
    /\ i \in 1..(Len(lotes) - 1)
    /\ \A b \in 1..i : LoteAssentado(b)
    /\ progress_tracker.processed_items = Processados(i)
    /\ (i % LotesPorBackup = 0) => EscritasDoLote(i) # {}
    /\ \A b \in (i + 1)..Len(lotes) : LoteIntocado(b)

\* a step of the run with respect to the pause: the pause is entered from the
\* batch that has just been handled and left into the next batch, the batch
\* index moves only by leaving a pause, and the run returns from its last
\* batch without a pause
PassoDePausa ==
    /\ (pc' = "pausa" /\ pc # "pausa") => (pc = "lote" /\ i' = i)
    /\ (pc = "pausa" /\ pc' # "pausa") => (pc' = "lote" /\ i' = i + 1)
    /\ (i' # i /\ i >= 1) => (pc = "pausa" /\ i' = i + 1)
    /\ (pc' = "fim" /\ pc # "fim") => (pc # "pausa" /\ i = Len(lotes))

\* C25: the pause occurs once between batch i and batch i+1, after batch i has
\* settled and been reported and backed up and before any request of batch i+1
\* starts, and never after the last batch: B batches, B-1 pauses.
C25_UmaPausaEntreLotes == [](pc = "pausa" => EmPausaEntreLotes) /\ [][PassoDePausa]_vars

\* a run of three batches has returned, having paused after the first and
\* after the second batch
C25_Witness == pc = "fim" /\ Len(lotes) = 3 /\ i = 3 /\ LoteAssentado(3)

\* ------------------------------------------------------- progress reports
\* what progress_tracker.update was last told agrees with batch b: the count
\* is min(b*k, n) and the successes and errors add up to it
RelatoDoLote(relato, b) ==
    /\ relato.processed_items = Min(b * concurrent_requests, Len(codigos_cnes))
    /\ relato.success_count + relato.error_count = relato.processed_items

\* a step of the run with respect to the tracker: update is called in the
\* step that appends a settled batch and in no other, with that batch's
\* count, which is greater than the count reported before
PassoDeRelato ==
    /\ (pc = "lote" /\ pc' \in {"pausa", "fim"}) =>
          /\ LoteAssentado(i)
          /\ RelatoDoLote(progress_tracker', i)
          /\ progress_tracker'.processed_items > progress_tracker.processed_items
    /\ (pc # "inicio" /\ progress_tracker' # progress_tracker) =>
          (pc = "lote" /\ pc' \in {"pausa", "fim"})

\* C26: update is called once per batch, after the batch has settled, with
\* processed = min(i*k, n); the counts reported grow strictly and the last is
\* n; success_count + error_count equals the count reported.
C26_RelatoPorLote ==
    /\ [](/\ pc = "lote" => progress_tracker.processed_items =
                               Min((i - 1) * concurrent_requests, Len(codigos_cnes))
          /\ pc = "pausa" => RelatoDoLote(progress_tracker, i)
          /\ (pc = "fim" /\ codigos_cnes # <<>>) =>
                /\ RelatoDoLote(progress_tracker, i)
                /\ progress_tracker.processed_items = Len(codigos_cnes))
    /\ [][PassoDeRelato]_vars

\* three codes in batches of two: the last report gave 3, not 4, with
\* successes and errors among them
C26_Witness ==
    /\ pc = "fim"
    /\ Len(codigos_cnes) = 3
    /\ concurrent_requests = 2
    /\ progress_tracker.processed_items = 3
    /\ progress_tracker.success_count > 0
    /\ progress_tracker.error_count > 0

\* ------------------------------------------ several entries of one code
\* the positions of the array whose item gives the code c
PosicoesDoCodigo(itens, c) == {n \in 1..Len(itens) : Denota(itens[n].campos, c)}

\* the last of a non-empty set of positions
Ultima(posicoes) == CHOOSE n \in posicoes : \A m \in posicoes : m <= n

\* the ten fields the item gives, None for a field it does not have
CamposDoItem(item) ==
    [campo \in CamposMacro |->
        IF campo \in DOMAIN item.campos THEN item.campos[campo] ELSE JNull]

\* C27: the index holds one entry per municipality code of the file, and for
\* a code that several items of the file give, the entry has the fields of
\* the last of those items.
C27_UltimaEntradaVence ==
    IndiceConstruido =>
        LET itens == ItensDoArquivo(arquivo_macrorregiao) IN
        /\ \A c \in CodigosDeConsulta :
              PosicoesDoCodigo(itens, c) # {} =>
                 /\ c \in DOMAIN dados_macrorregiao
                 /\ dados_macrorregiao[c] =
                       CamposDoItem(itens[Ultima(PosicoesDoCodigo(itens, c))])
        /\ (\A n \in 1..Len(itens) :
               \E c \in CodigosDeConsulta : Denota(itens[n].campos, c)) =>
              Cardinality(DOMAIN dados_macrorregiao) =
                 Cardinality({c \in CodigosDeConsulta : PosicoesDoCodigo(itens, c) # {}})

\* the file gives code 150010 twice, first as a string and then as an
\* integer; the index has the one entry of the second item
C27_Witness ==
    /\ fase = "mesclagem"
    /\ LET itens == ItensDoArquivo(arquivo_macrorregiao) IN
       /\ PosicoesDoCodigo(itens, "150010") = {1, 2}
       /\ itens[1].campos["municipio"] = JStr("Abaetetuba")
       /\ itens[2].campos["municipio"] = JStr("Abaetetuba 2022")
    /\ DOMAIN dados_macrorregiao = {"150010"}
    /\ dados_macrorregiao["150010"]["municipio"] = JStr("Abaetetuba 2022")

\* ----------------------------------------------------- entries without a code
\* the item has no municipality code: the field is absent, empty or null
SemCodigoDeMunicipio(item) ==
    \/ "codigo_municipio" \notin DOMAIN item.campos
    \/ item.campos["codigo_municipio"] = JStr("")
    \/ item.campos["codigo_municipio"] = JNull

\* the array without its items that have no municipality code
ItensComCodigo(itens) == SelectSeq(itens, LAMBDA item : ~SemCodigoDeMunicipio(item))

\* C28: an item without a municipality code (absent, empty or null) creates no
\* key and does not make loading fail: a file whose items are all dicts is
\* loaded, and its index is the index of the same array without those items.
C28_SemCodigoIgnorado ==
    (fase # "indice" /\ FormatoDocumentado(arquivo_macrorregiao)
        /\ (arquivo_macrorregiao.t = "obj" =>
               ChaveMacrorregiao \in DOMAIN arquivo_macrorregiao.campos)) =>
        /\ IndiceConstruido
        /\ dados_macrorregiao =
              Indexar(ItensComCodigo(ItensDoArquivo(arquivo_macrorregiao)), SemIndice).indice

\* ------------------------------------------------- what merging leaves alone
\* the index as the constructor built it from the macro-region file
IndiceDeOrigem == CarregarDadosMacrorregiao(arquivo_macrorregiao).indice

\* the records in memory once mesclar_arquivo_resultados has gone through them
RegistrosNaMemoria == mesclagem.estabelecimentos

\* C29: after any number of merges the index is the index as constructed and
\* every input record is as it was read, with its _metadata and without a
\* dados_macrorregiao of its own; the records returned have no _metadata.
C29_MesclagemNaoAlteraEntradas ==
    /\ IndiceConstruido => dados_macrorregiao = IndiceDeOrigem
    /\ mesclagem.feita =>
          /\ RegistrosNaMemoria = Registros
          /\ \A n \in 1..Len(mesclagem.estabelecimentos_mesclados) :
                "_metadata" \notin DOMAIN mesclagem.estabelecimentos_mesclados[n].conteudo
    /\ \A n \in 1..Len(remesclados) : "_metadata" \notin DOMAIN remesclados[n].conteudo

\* a record carrying _metadata has been merged with its index entry and the
\* merged record merged again: the record in memory still has its _metadata
\* and no dados_macrorregiao, the merged one has lost the _metadata
C29_Witness ==
    /\ MesclagemCompleta
    /\ remesclados # <<>>
    /\ \E n \in 1..Len(Registros) :
          /\ "_metadata" \in DOMAIN Registros[n].conteudo
          /\ "_metadata" \in DOMAIN RegistrosNaMemoria[n].conteudo
          /\ "dados_macrorregiao" \notin DOMAIN RegistrosNaMemoria[n].conteudo
          /\ "_metadata" \notin DOMAIN mesclagem.estabelecimentos_mesclados[n].conteudo
          /\ DadosRegionais(n).t = "obj"
          /\ "codigo_uf" \in DOMAIN dados_macrorregiao[CodigoDoRegistro(n)]

\* ------------------------------------------------- a backup write that fails
\* the calls of salvar_backup_incremental that failed
FalhasDeEscrita ==
    {h \in DOMAIN historico_backup :
        /\ historico_backup[h].operacao = "escrita"
        /\ historico_backup[h].resultado \in {"falha_open", "falha_dump"}}

\* the two lists as the outcomes of the requests of batches 1..b alone make
\* them, whatever became of the backups
RECURSIVE ListasDosLotes(_)
ListasDosLotes(b) ==
    IF b = 0 THEN [validos |-> <<>>, erros |-> <<>>, excecao |-> "nenhuma"]
    ELSE Acumular(ResultadosLimpos(lotes[b], ResultadosDoLote(b)), b, 1,
                  ListasDosLotes(b - 1))

\* the number of batches whose results have been appended
LotesColetados == IF pc \in {"pausa", "fim"} THEN i ELSE i - 1

\* a step in which salvar_backup_incremental fails goes on as one in which it
\* succeeds: to the pause before the next batch, or to the return
PassoAposFalha ==
    (Len(historico_backup') > Len(historico_backup)
        /\ Len(historico_backup) + 1 \in FalhasDeEscrita') =>
        /\ pc = "lote"
        /\ pc' = IF i < Len(lotes) THEN "pausa" ELSE "fim"
        /\ excecao' = "nenhuma"

\* C30: a backup write that fails does not end the run and does not change
\* the two lists: the run goes on with the next batch, and at every point the
\* lists are what the outcomes of the requests make them, as in a run whose
\* writes all succeed.
C30_FalhaDeBackupInofensiva ==
    /\ []((FalhasDeEscrita # {}) =>
            /\ pc \in {"lote", "pausa", "fim"}
            /\ excecao = "nenhuma"
            /\ estabelecimentos_validos = ListasDosLotes(LotesColetados).validos
            /\ erros_encontrados = ListasDosLotes(LotesColetados).erros)
    /\ [][PassoAposFalha]_vars

\* the backup after batch 5 failed, batch 6 was fetched and the run returned
\* with the outcomes of all six codes
C30_Witness ==
    /\ pc = "fim"
    /\ Len(lotes) = 6
    /\ \E h \in FalhasDeEscrita : historico_backup[h].lote = 5
    /\ Len(estabelecimentos_validos) + Len(erros_encontrados) = 6
    /\ Len(estabelecimentos_validos) >= 1

\* ------------------------------------------------------- the run counters
\* the outcomes counted in self.stats
ResultadosContados ==
    stats.sucessos + stats.codigos_invalidos + stats.erros + stats.erros_conexao

\* the failures counted in self.stats
FalhasContadas == stats.codigos_invalidos + stats.erros + stats.erros_conexao

\* C31: whenever the current batch has settled, total_requisicoes equals
\* sucessos + codigos_invalidos + erros + erros_conexao, and once its results
\* have been appended sucessos equals len(estabelecimentos_validos) and the
\* three failure counters add up to len(erros_encontrados), whatever the
\* order in which the requests of a batch ran.
C31_ContadoresConsistentes ==
    /\ ((pc = "lote" /\ LoteAssentado(i)) \/ pc \in {"pausa", "fim"}) =>
          stats.total_requisicoes = ResultadosContados
    /\ pc \in {"pausa", "fim"} =>
          /\ stats.sucessos = Len(estabelecimentos_validos)
          /\ FalhasContadas = Len(erros_encontrados)
          /\ stats.total_requisicoes = Processados(i)

\* three codes in batches of two have been fetched, and a success, a 404 and
\* a timeout are among the outcomes counted
C31_Witness ==
    /\ pc = "fim"
    /\ concurrent_requests = 2
    /\ Len(codigos_cnes) = 3
    /\ stats.total_requisicoes = 3
    /\ stats.sucessos >= 1
    /\ stats.codigos_invalidos >= 1
    /\ stats.erros_conexao >= 1

\* --------------------------------------------------- merging no record at all
\* mesclar_arquivo_resultados was given a results document or a list that
\* holds no record
EntradaVazia ==
    /\ arquivo_resultados.forma \in {"resultados", "lista"}
    /\ arquivo_resultados.estabelecimentos = <<>>

\* C32: mesclar_arquivo_resultados on an input without records returns
\* normally, with no merged record, both counts 0 and no unmatched code, and
\* raises neither before nor after it has written the output.
C32_MesclagemVaziaCompleta ==
    (mesclagem.feita /\ EntradaVazia) =>
        /\ mesclagem.erro = "nenhum"
        /\ fase = "concluido"
        /\ mesclagem.estabelecimentos_mesclados = <<>>
        /\ mesclagem.estatisticas.mesclagens_bem_sucedidas = 0
        /\ mesclagem.estatisticas.mesclagens_falharam = 0
        /\ mesclagem.estatisticas.codigos_municipio_nao_encontrados = <<>>

\* --------------------------------------------------------------- termination
\* processar_lista_codigos has returned after ceil(n/k) batches with one
\* outcome for every code
RetornouCompleto ==
    /\ pc = "fim"
    /\ i = TetoDaDivisao(Len(codigos_cnes), concurrent_requests)
    /\ Len(estabelecimentos_validos) + Len(erros_encontrados) = Len(codigos_cnes)
    /\ \A p \in DOMAIN codigos_cnes :
          NosValidos(codigos_cnes[p]) + NosErros(codigos_cnes[p]) = 1

\* C33: when every request sent settles, a run on any code list returns after
\* exactly ceil(n/k) batches with every code accounted for, and the batch
\* index only moves on by one: no batch is fetched twice.
C33_Termina == <>RetornouCompleto /\ [][i' # i => i' = i + 1]_vars

====
